---- MODULE Spec2Model ----
(***************************************************************************)
(* Model of the tablet-resource-manager server: the six metric collectors  *)
(* (host, memory, cpu, disk, network, android), their process-wide caches  *)
(* and the GET /api/metrics handler that aggregates them.                  *)
(*                                                                         *)
(* JavaScript values are encoded as tagged records:                        *)
(*   Obj(r)  an object whose own keys are DOMAIN r                         *)
(*   Arr(s)  an array whose elements are the sequence s                    *)
(*   Null    null / undefined                                              *)
(* Times are milliseconds (Date.now()).  Percentages that JavaScript keeps *)
(* as floats are kept in hundredths of a percent.                          *)
(***************************************************************************)
EXTENDS Integers, Sequences, FiniteSets, TLC

VARIABLES
    platform,          \* process.platform / os.platform(), fixed per process
    now,               \* Date.now()
    diskCache,         \* disk.js: let diskCache
    diskCacheTime,     \* disk.js: let diskCacheTime
    networkCache,      \* network.js: let networkCache
    networkCacheTime,  \* network.js: let networkCacheTime
    androidCache,      \* android.js: let androidCache
    androidCacheTime,  \* android.js: let androidCacheTime
    lastCpuUsage,      \* cpu.js: let lastCpuUsage
    lastMeasureTime,   \* cpu.js: let lastMeasureTime
    last,              \* observation of the most recent single collector call
    response,          \* observation of the most recent GET /api/metrics
    inflight,          \* collectAndroidInfo calls suspended at their await
    tracked,           \* observation of the most recent CPU usage calculation
    applied,           \* a parser or assembler applied on its own: its input and output
    hook               \* the dashboard's useMetrics hook: its state and its fetches in flight

vars == <<platform, now, diskCache, diskCacheTime, networkCache, networkCacheTime,
          androidCache, androidCacheTime, lastCpuUsage, lastMeasureTime, last, response,
          inflight, tracked, applied, hook>>

caches == <<diskCache, diskCacheTime, networkCache, networkCacheTime,
            androidCache, androidCacheTime, lastCpuUsage, lastMeasureTime>>

----------------------------------------------------------------------------
(* JavaScript values *)

Null == [type |-> "null"]

Obj(r) == [type |-> "object", obj |-> r]

Arr(s) == [type |-> "array", elems |-> s]

\* v.k for a property name k: undefined (Null) on arrays, null and missing keys
Get(v, k) == IF v.type = "object" /\ k \in DOMAIN v.obj THEN v.obj[k] ELSE Null

\* `v?.error` is truthy: v is an object with a non-empty string under `error`
HasError(v) == v.type = "object" /\ "error" \in DOMAIN v.obj /\ v.obj["error"] # ""

\* the {error, message} literal every catch block builds
ErrorObj(error, message) == Obj([error |-> error, message |-> message])

\* an Error thrown by a raw source (os.*, fs.*, execSync, JSON.parse)
Thrown(message) == [threw |-> TRUE, message |-> message]

Returned(value) == [threw |-> FALSE, value |-> value]

\* how a promise handed to Promise.allSettled settles
Fulfilled(value) == [status |-> "fulfilled", value |-> value]

Rejected(message) == [status |-> "rejected", message |-> message]

Domains == {"host", "memory", "cpu", "disk", "network", "android"}

\* Object.keys(metrics) order of the slots in the metrics literal
DomainOrder == <<"host", "memory", "cpu", "disk", "network", "android">>

Platforms == {"linux", "win32", "darwin"}

\* instants at which the clock is read (never 0: Date.now() is far from the
\* epoch); their differences straddle every cache TTL
Instants == <<1000, 2000, 3000, 6000, 31000, 32000, 36000>>

MaxInstants == 5

TimePoints == {Instants[i] : i \in 1..MaxInstants}

\* instants at which requests reach the server
RequestInstants == <<1000, 3000, 7000, 32000>>

MaxRequestInstants == 2

RequestTimes == {RequestInstants[i] : i \in 1..MaxRequestInstants}

----------------------------------------------------------------------------
(* host.js *)

\* what os.hostname() ... os.cpus() give collectHostInfo in one call
HostReads == {Returned([hostname |-> "tablet", cpuCount |-> 8]), Thrown("os failure")}

collectHostInfo(os) ==
    IF os.threw
    THEN ErrorObj("Failed to collect host information", os.message)
    ELSE Obj([hostname |-> os.value.hostname,
              platform |-> platform,
              uptime   |-> now \div 1000,
              cpuCount |-> os.value.cpuCount])

----------------------------------------------------------------------------
(* memory.js *)

MemoryReads == {Returned([total |-> 4096, free |-> 1024]), Thrown("os failure")}

\* usage is a percentage in hundredths; toFixed(2) rounds half up
collectMemoryInfo(os) ==
    IF os.threw
    THEN ErrorObj("Failed to collect memory information", os.message)
    ELSE LET totalMem == os.value.total
             freeMem  == os.value.free
             usedMem  == totalMem - freeMem
         IN Obj([total |-> totalMem,
                 used  |-> usedMem,
                 free  |-> freeMem,
                 usage |-> IF totalMem > 0
                           THEN (2 * usedMem * 10000 + totalMem) \div (2 * totalMem)
                           ELSE 0])

----------------------------------------------------------------------------
(* disk.js *)

DISK_CACHE_TTL == 30000

\* Strings the parser inspects by prefix are sequences of characters.
StartsWith(s, prefix) ==
    Len(s) >= Len(prefix) /\ SubSeq(s, 1, Len(prefix)) = prefix

S_tmpfs == <<"t", "m", "p", "f", "s">>

S_udev == <<"u", "d", "e", "v">>

S_devloop == <<"/", "d", "e", "v", "/", "l", "o", "o", "p">>

S_snap == <<"/", "s", "n", "a", "p", "/">>

S_sys == <<"/", "s", "y", "s">>

S_proc == <<"/", "p", "r", "o", "c">>

S_run == <<"/", "r", "u", "n">>

S_devroot == <<"/", "d", "e", "v", "/", "r", "o", "o", "t">>

S_overlay == <<"o", "v", "e", "r", "l", "a", "y">>

S_root == <<"/">>

S_data == <<"/", "d", "a", "t", "a">>

S_devshm == <<"/", "d", "e", "v", "/", "s", "h", "m">>

\* One line of `df -kP` after line.trim().split(/\s+/): n columns, of which the
\* first six are named.  size/used/available are what parseInt reads from the
\* 1 KiB block columns, usage what it reads from the "NN%" column.
DfLine(n, filesystem, size, used, available, usage, mountpoint) ==
    [n |-> n, filesystem |-> filesystem, size |-> size, used |-> used,
     available |-> available, usage |-> usage, mountpoint |-> mountpoint]

IsSpecialFilesystem_UnlessFull(line) ==
    /\ line.usage < 100
    /\ \/ StartsWith(line.filesystem, S_tmpfs)
       \/ StartsWith(line.filesystem, S_udev)
       \/ StartsWith(line.filesystem, S_devloop)
       \/ StartsWith(line.mountpoint, S_snap)
       \/ StartsWith(line.mountpoint, S_sys)
       \/ StartsWith(line.mountpoint, S_proc)
       \/ StartsWith(line.mountpoint, S_run)

\* the `if (filesystem.startsWith('tmpfs') || ...) continue` test
IsSpecialFilesystem(line) ==
    \/ StartsWith(line.filesystem, S_tmpfs)
    \/ StartsWith(line.filesystem, S_udev)
    \/ StartsWith(line.filesystem, S_devloop)
    \/ StartsWith(line.mountpoint, S_snap)
    \/ StartsWith(line.mountpoint, S_sys)
    \/ StartsWith(line.mountpoint, S_proc)
    \/ StartsWith(line.mountpoint, S_run)

DfEntry_Recomputed(line) ==
    Obj([filesystem     |-> line.filesystem,
         usagePercent   |-> IF line.size > 0
                            THEN (2 * line.used * 100 + line.size) \div (2 * line.size)
                            ELSE 0,
         mountpoint     |-> line.mountpoint,
         sizeBytes      |-> line.size * 1024,
         usedBytes      |-> line.used * 1024,
         availableBytes |-> line.available * 1024])

\* the object pushed for one kept line (the human-readable strings are left out)
DfEntry(line) ==
    Obj([filesystem     |-> line.filesystem,
         usagePercent   |-> line.usage,
         mountpoint     |-> line.mountpoint,
         sizeBytes      |-> line.size * 1024,
         usedBytes      |-> line.used * 1024,
         availableBytes |-> line.available * 1024])

RECURSIVE DfEntries(_)
DfEntries(lines) ==
    IF lines = <<>> THEN <<>>
    ELSE LET line == Head(lines)
             rest == DfEntries(Tail(lines))
         IN IF line.n >= 6 /\ ~IsSpecialFilesystem(line)
            THEN <<DfEntry(line)>> \o rest
            ELSE rest

\* `output` is the listing below its header line
parseDfOutput(output) == Arr(DfEntries(output))

\* One line of `wmic logicaldisk get size,freespace,caption`: caption, freespace, size
WmicEntry(line) ==
    LET used == line.size - line.freespace
        usagePercent == IF line.size > 0
                        THEN (2 * used * 100 + line.size) \div (2 * line.size)
                        ELSE 0
    IN Obj([filesystem     |-> line.caption,
            usagePercent   |-> usagePercent,
            mountpoint     |-> line.caption,
            sizeBytes      |-> line.size,
            usedBytes      |-> used,
            availableBytes |-> line.freespace])

RECURSIVE WmicEntries(_)
WmicEntries(lines) ==
    IF lines = <<>> THEN <<>>
    ELSE LET line == Head(lines)
             rest == WmicEntries(Tail(lines))
         IN IF line.n >= 3 THEN <<WmicEntry(line)>> \o rest ELSE rest

\* The sources change as time passes: a listing read at instant t shows t in
\* its used and available columns, so two reads at different instants differ.
DfOutputAt(t) ==
    <<DfLine(6, S_devroot, 100000, 40000 + t \div 1000, 60000 - t \div 1000, 40, S_root),
      DfLine(6, S_tmpfs, 500, 500, 0, 100, S_devshm),
      DfLine(6, S_overlay, 200, 100, 100, 50, S_data)>>

WmicOutputAt(t) ==
    <<[n |-> 3, caption |-> <<"C", ":">>, freespace |-> 60000 - t \div 1000, size |-> 100000]>>

\* what execSync gives the disk collector: the listing, or a throw (missing
\* binary, non-zero exit, timeout)
DiskReads ==
    IF platform = "win32"
    THEN {Returned(WmicOutputAt(now)), Thrown("spawnSync wmic ENOENT")}
    ELSE {Returned(DfOutputAt(now)), Thrown("spawnSync df ETIMEDOUT")}

\* A collector call yields: the settled promise, how many times it invoked its
\* raw source, whether the raw source raised, and the module state it leaves.
Outcome(settled, calls, rawErr, cache, cacheTime) ==
    [settled |-> settled, calls |-> calls, rawErr |-> rawErr,
     cache |-> cache, cacheTime |-> cacheTime]

collectDiskInfo_NoCatch(exec) ==
    IF diskCache # Null /\ (now - diskCacheTime) < DISK_CACHE_TTL
    THEN Outcome(Fulfilled(diskCache), 0, FALSE, diskCache, diskCacheTime)
    ELSE IF exec.threw
    THEN Outcome(Rejected(exec.message), 1, TRUE, diskCache, diskCacheTime)
    ELSE IF platform = "win32"
    THEN Outcome(Fulfilled(Arr(WmicEntries(exec.value))), 1, FALSE,
                 Arr(WmicEntries(exec.value)), now)
    ELSE Outcome(Fulfilled(parseDfOutput(exec.value)), 1, FALSE,
                 parseDfOutput(exec.value), now)

collectDiskInfo_NeverExpires(exec) ==
    IF diskCache # Null
    THEN Outcome(Fulfilled(diskCache), 0, FALSE, diskCache, diskCacheTime)
    ELSE IF exec.threw
    THEN Outcome(Fulfilled(Arr(<<ErrorObj("Failed to collect disk information",
                                          exec.message)>>)),
                 1, TRUE, diskCache, diskCacheTime)
    ELSE IF platform = "win32"
    THEN Outcome(Fulfilled(Arr(WmicEntries(exec.value))), 1, FALSE,
                 Arr(WmicEntries(exec.value)), now)
    ELSE Outcome(Fulfilled(parseDfOutput(exec.value)), 1, FALSE,
                 parseDfOutput(exec.value), now)

collectDiskInfo(exec) ==
    IF diskCache # Null /\ (now - diskCacheTime) < DISK_CACHE_TTL
    THEN Outcome(Fulfilled(diskCache), 0, FALSE, diskCache, diskCacheTime)
    ELSE IF platform = "win32"
    THEN IF exec.threw
         THEN Outcome(Fulfilled(Arr(<<ErrorObj("Failed to collect Windows disk information",
                                               exec.message)>>)),
                      1, TRUE, diskCache, diskCacheTime)
         ELSE Outcome(Fulfilled(Arr(WmicEntries(exec.value))), 1, FALSE,
                      Arr(WmicEntries(exec.value)), now)
    ELSE IF exec.threw
         THEN Outcome(Fulfilled(Arr(<<ErrorObj("Failed to collect disk information",
                                               exec.message)>>)),
                      1, TRUE, diskCache, diskCacheTime)
         ELSE Outcome(Fulfilled(parseDfOutput(exec.value)), 1, FALSE,
                      parseDfOutput(exec.value), now)

----------------------------------------------------------------------------
(* network.js *)

NETWORK_CACHE_TTL == 2000

EmptyObject == Obj([k \in {} |-> Null])

Counters(bytes, packets, errors, dropped) ==
    [bytes |-> bytes, packets |-> packets, errors |-> errors, dropped |-> dropped]

\* One line of /proc/net/dev after line.trim().split(/\s+/): n columns; name is
\* parts[0] without its colon, rx is parts[1..4], tx is parts[9..12].
NetLine(n, name, rx, tx) == [n |-> n, name |-> name, rx |-> rx, tx |-> tx]

\* the lines the loop keeps: at least 17 columns, not loopback, parts[1] !== '0'
KeptNetLines(lines) ==
    {i \in 1..Len(lines) :
        /\ lines[i].n >= 17
        /\ lines[i].name # "lo"
        /\ lines[i].rx.bytes # 0}

\* interfaces[name] = {...}: a later line of the same name replaces an earlier one
LinuxInterfaces(lines) ==
    LET kept  == KeptNetLines(lines)
        names == {lines[i].name : i \in kept}
        lastOf(name) == CHOOSE i \in kept :
                            /\ lines[i].name = name
                            /\ \A j \in kept : lines[j].name = name => j <= i
    IN [name \in names |-> [rx |-> lines[lastOf(name)].rx, tx |-> lines[lastOf(name)].tx]]

\* the readFileSync and the parse sit in one try; its catch returns {}
parseLinuxNetworkStats(read) ==
    IF read.threw THEN [name \in {} |-> Null] ELSE LinuxInterfaces(read.value)

RECURSIVE SumSeq(_)
SumSeq(s) == IF s = <<>> THEN 0 ELSE Head(s) + SumSeq(Tail(s))

\* `netstat -e`: read.value lists what parseInt(parts[1]) || 0 gives on each
\* line that includes 'Bytes'
parseWindowsNetworkStats(read) ==
    [name \in {"default"} |->
        [rx |-> Counters(IF read.threw THEN 0 ELSE SumSeq(read.value), 0, 0, 0),
         tx |-> Counters(0, 0, 0, 0)]]

\* formattedInterfaces[name] (the bytesFormatted strings are left out)
FormatInterface(stats) ==
    [rx    |-> stats.rx,
     tx    |-> stats.tx,
     total |-> [bytes   |-> stats.rx.bytes + stats.tx.bytes,
                packets |-> stats.rx.packets + stats.tx.packets]]

NetOutputAt(t) ==
    <<NetLine(17, "lo", Counters(900, 9, 0, 0), Counters(900, 9, 0, 0)),
      NetLine(17, "wlan0", Counters(5000 + t, 50, 1, 0), Counters(3000, 30, 0, 2)),
      NetLine(17, "eth0", Counters(0, 0, 0, 0), Counters(40, 1, 0, 0))>>

\* what the network collector's raw source gives: /proc/net/dev on linux,
\* `netstat -e` on win32; nothing is read on other platforms
NetworkReads ==
    IF platform = "linux"
    THEN {Returned(NetOutputAt(now)), Thrown("ENOENT /proc/net/dev")}
    ELSE IF platform = "win32"
    THEN {Returned(<<5000 + now, 10>>), Thrown("spawnSync netstat ENOENT")}
    ELSE {Returned(<<>>)}

\* No statement between `try {` and the final return can throw (both parsers
\* catch their own errors), so the outer catch block is never entered.
collectNetworkInfo(read) ==
    IF networkCache # Null /\ (now - networkCacheTime) < NETWORK_CACHE_TTL
    THEN Outcome(Fulfilled(networkCache), 0, FALSE, networkCache, networkCacheTime)
    ELSE LET interfaces == IF platform = "linux" THEN parseLinuxNetworkStats(read)
                           ELSE IF platform = "win32" THEN parseWindowsNetworkStats(read)
                           ELSE [name \in {} |-> Null]
             formattedInterfaces ==
                 Obj([name \in DOMAIN interfaces |-> FormatInterface(interfaces[name])])
             reads == IF platform \in {"linux", "win32"} THEN 1 ELSE 0
         IN Outcome(Fulfilled(formattedInterfaces), reads, reads = 1 /\ read.threw,
                    formattedInterfaces, now)

----------------------------------------------------------------------------
(* android.js *)

ANDROID_CACHE_TTL == 5000

\* `which termux-battery-status` exits 0, or execSync throws
isTermuxApiAvailable(which) == ~which.threw

\* exec is `termux-battery-status` piped through JSON.parse: either may throw
getBatteryInfo(which, exec) ==
    IF ~isTermuxApiAvailable(which)
    THEN ErrorObj("Termux API not available",
                  "Install termux-api package and Termux:API app")
    ELSE IF exec.threw
    THEN ErrorObj("Failed to get battery information", exec.message)
    ELSE Obj([level       |-> exec.value.percentage,
              status      |-> exec.value.status,
              temperature |-> exec.value.temperature])

S_thermal_zone == <<"t", "h", "e", "r", "m", "a", "l", "_", "z", "o", "n", "e">>

S_cooling_device == <<"c", "o", "o", "l", "i", "n", "g", "_", "d", "e", "v", "i", "c", "e">>

\* One entry of readdirSync('/sys/class/thermal'): hasFiles says that both its
\* temp and type files exist, read is what reading them gives (temp in
\* millidegrees) or a throw.
ThermalEntry(name, hasFiles, read) == [name |-> name, hasFiles |-> hasFiles, read |-> read]

\* the entries whose body reaches `thermalData[type] = {...}`
ReadableZones(entries) ==
    {i \in 1..Len(entries) :
        /\ StartsWith(entries[i].name, S_thermal_zone)
        /\ entries[i].hasFiles
        /\ ~entries[i].read.threw}

\* toFixed(1) of temp / 1000 and of (temp / 1000) * 9/5 + 32, in tenths
ZoneRecord(entry) ==
    [zone                  |-> entry.name,
     temperature           |-> entry.read.value.temp,
     temperatureCelsius    |-> (2 * entry.read.value.temp + 100) \div 200,
     temperatureFahrenheit |-> (2 * (9 * entry.read.value.temp + 160000) + 500) \div 1000]

\* thermalData is keyed by the type string: a later zone of the same type
\* replaces an earlier one
ThermalData(entries) ==
    LET readable == ReadableZones(entries)
        types    == {entries[i].read.value.type : i \in readable}
        lastOf(type) == CHOOSE i \in readable :
                            /\ entries[i].read.value.type = type
                            /\ \A j \in readable :
                                   entries[j].read.value.type = type => j <= i
    IN [type \in types |-> ZoneRecord(entries[lastOf(type)])]

\* sys: whether /sys/class/thermal exists and what readdirSync gives
getThermalInfo(which, sys) ==
    IF sys.exists /\ sys.listing.threw
    THEN Obj([error   |-> "Failed to get thermal information",
              message |-> sys.listing.message,
              zones   |-> [t \in {} |-> Null],
              count   |-> 0])
    ELSE LET thermalData == IF sys.exists THEN ThermalData(sys.listing.value)
                            ELSE [t \in {} |-> Null]
         IN IF DOMAIN thermalData = {} /\ isTermuxApiAvailable(which)
            THEN Obj([message |-> "Thermal sensors not accessible via standard methods",
                      availableZones |-> 0])
            ELSE Obj([zones |-> thermalData, count |-> Cardinality(DOMAIN thermalData)])

\* getprop: the three `getprop` calls (one throw skips all three assignments);
\* version: whether /proc/version exists and what reading it gives
getDeviceInfo(which, getprop, version) ==
    LET props == IF isTermuxApiAvailable(which) /\ ~getprop.threw
                 THEN {"androidVersion", "model", "brand"} ELSE {}
        kernel == IF version.exists /\ ~version.read.threw
                  THEN {"kernelVersion"} ELSE {}
    IN Obj([k \in props \cup kernel |->
               IF k = "kernelVersion" THEN version.read.value ELSE getprop.value[k]])

\* Promise.allSettled entry -> field of the android result
SubProbeField(settled) ==
    IF settled.status = "fulfilled" THEN settled.value
    ELSE Obj([error |-> settled.message])

AndroidEnv(which, battery, sys, getprop, version) ==
    [which |-> which, battery |-> battery, sys |-> sys, getprop |-> getprop,
     version |-> version]

\* whether an external call made by the sub-probes raised
AndroidRawErr(env) ==
    \/ env.which.threw
    \/ (~env.which.threw /\ (env.battery.threw \/ env.getprop.threw))
    \/ (env.sys.exists /\ env.sys.listing.threw)
    \/ (env.sys.exists /\ ~env.sys.listing.threw /\
        \E i \in 1..Len(env.sys.listing.value) :
            /\ StartsWith(env.sys.listing.value[i].name, S_thermal_zone)
            /\ env.sys.listing.value[i].hasFiles
            /\ env.sys.listing.value[i].read.threw)
    \/ (env.version.exists /\ env.version.read.threw)

Zone0 == S_thermal_zone \o <<"0">>

Zone1 == S_thermal_zone \o <<"1">>

WhichOk == Returned("/usr/bin/termux-battery-status")

BatteryOk == Returned([percentage |-> 85, status |-> "CHARGING", temperature |-> 285])

GetpropOk == Returned([androidVersion |-> "13", model |-> "Tab", brand |-> "Acme"])

VersionOk == [exists |-> TRUE, read |-> Returned("Linux version 5.10")]

SysOk ==
    [exists |-> TRUE,
     listing |-> Returned(<<ThermalEntry(S_cooling_device \o <<"0">>, FALSE, Thrown("ENOENT")),
                            ThermalEntry(Zone0, TRUE, Returned([temp |-> 45200, type |-> "cpu"])),
                            ThermalEntry(Zone1, TRUE, Thrown("EACCES"))>>)]

SysListingFails == [exists |-> TRUE, listing |-> Thrown("EACCES /sys/class/thermal")]

AndroidAllOk == AndroidEnv(WhichOk, BatteryOk, SysOk, GetpropOk, VersionOk)

AndroidAllFail ==
    AndroidEnv(Thrown("which: exit 1"), Thrown("ENOENT"), SysListingFails,
               Thrown("ENOENT"), [exists |-> TRUE, read |-> Thrown("EACCES")])

\* what the android sub-probes' external calls give in one collection: every
\* call succeeds, or every call raises
AndroidReads == {AndroidAllOk, AndroidAllFail}

\* Each external call of the sub-probes succeeds or raises on its own, the
\* thermal directory holding one readable zone beside an unreadable one; and
\* with every call succeeding, the thermal directory holds two readable zones
\* whose type files give the same name.
AndroidCombos ==
    {AndroidEnv(w, b, s, g, v) :
        w \in {WhichOk, Thrown("which: exit 1")},
        b \in {BatteryOk, Thrown("ENOENT")},
        s \in {SysOk, SysListingFails, [exists |-> FALSE, listing |-> Returned(<<>>)]},
        g \in {GetpropOk, Thrown("ENOENT")},
        v \in {VersionOk, [exists |-> TRUE, read |-> Thrown("EACCES")],
               [exists |-> FALSE, read |-> Returned("")]}}
    \cup
    {AndroidEnv(WhichOk, BatteryOk,
                [exists |-> TRUE,
                 listing |-> Returned(<<ThermalEntry(Zone0, TRUE, Returned([temp |-> 45200, type |-> "acpitz"])),
                                        ThermalEntry(Zone1, TRUE, Returned([temp |-> 51000, type |-> "acpitz"]))>>)],
                GetpropOk, VersionOk)}

collectAndroidInfo_FailureSpreads(env) ==
    IF androidCache # Null /\ (now - androidCacheTime) < ANDROID_CACHE_TTL
    THEN Outcome(Fulfilled(androidCache), 0, FALSE, androidCache, androidCacheTime)
    ELSE IF platform # "linux"
    THEN Outcome(Fulfilled(Obj([available |-> FALSE,
                                reason |-> <<"Android features not available on", platform>>])),
                 0, FALSE, androidCache, androidCacheTime)
    ELSE LET battery == Fulfilled(getBatteryInfo(env.which, env.battery))
             thermal == Fulfilled(getThermalInfo(env.which, env.sys))
             device  == Fulfilled(getDeviceInfo(env.which, env.getprop, env.version))
             result  == Obj([available |-> TRUE,
                             termuxApi |-> isTermuxApiAvailable(env.which),
                             battery   |-> SubProbeField(battery),
                             thermal   |-> SubProbeField(IF HasError(battery.value)
                                                         THEN battery ELSE thermal),
                             device    |-> SubProbeField(device),
                             timestamp |-> now])
         IN Outcome(Fulfilled(result), 1, AndroidRawErr(env), result, now)

collectAndroidInfo_NoPlatformCheck(env) ==
    IF androidCache # Null /\ (now - androidCacheTime) < ANDROID_CACHE_TTL
    THEN Outcome(Fulfilled(androidCache), 0, FALSE, androidCache, androidCacheTime)
    ELSE IF FALSE
    THEN Outcome(Fulfilled(Obj([available |-> FALSE,
                                reason |-> <<"Android features not available on", platform>>])),
                 0, FALSE, androidCache, androidCacheTime)
    ELSE LET battery == Fulfilled(getBatteryInfo(env.which, env.battery))
             thermal == Fulfilled(getThermalInfo(env.which, env.sys))
             device  == Fulfilled(getDeviceInfo(env.which, env.getprop, env.version))
             result  == Obj([available |-> TRUE,
                             termuxApi |-> isTermuxApiAvailable(env.which),
                             battery   |-> SubProbeField(battery),
                             thermal   |-> SubProbeField(thermal),
                             device    |-> SubProbeField(device),
                             timestamp |-> now])
         IN Outcome(Fulfilled(result), 1, AndroidRawErr(env), result, now)

collectAndroidInfo_InclusiveTtl(env) ==
    IF androidCache # Null /\ (now - androidCacheTime) <= ANDROID_CACHE_TTL
    THEN Outcome(Fulfilled(androidCache), 0, FALSE, androidCache, androidCacheTime)
    ELSE IF platform # "linux"
    THEN Outcome(Fulfilled(Obj([available |-> FALSE,
                                reason |-> <<"Android features not available on", platform>>])),
                 0, FALSE, androidCache, androidCacheTime)
    ELSE LET battery == Fulfilled(getBatteryInfo(env.which, env.battery))
             thermal == Fulfilled(getThermalInfo(env.which, env.sys))
             device  == Fulfilled(getDeviceInfo(env.which, env.getprop, env.version))
             result  == Obj([available |-> TRUE,
                             termuxApi |-> isTermuxApiAvailable(env.which),
                             battery   |-> SubProbeField(battery),
                             thermal   |-> SubProbeField(thermal),
                             device    |-> SubProbeField(device),
                             timestamp |-> now])
         IN Outcome(Fulfilled(result), 1, AndroidRawErr(env), result, now)


\* The three sub-probes are async functions that catch everything, so each
\* entry of Promise.allSettled is fulfilled; nothing else in the try throws.
collectAndroidInfo(env) ==
    IF androidCache # Null /\ (now - androidCacheTime) < ANDROID_CACHE_TTL
    THEN Outcome(Fulfilled(androidCache), 0, FALSE, androidCache, androidCacheTime)
    ELSE IF platform # "linux"
    THEN Outcome(Fulfilled(Obj([available |-> FALSE,
                                reason |-> <<"Android features not available on", platform>>])),
                 0, FALSE, androidCache, androidCacheTime)
    ELSE LET battery == Fulfilled(getBatteryInfo(env.which, env.battery))
             thermal == Fulfilled(getThermalInfo(env.which, env.sys))
             device  == Fulfilled(getDeviceInfo(env.which, env.getprop, env.version))
             result  == Obj([available |-> TRUE,
                             termuxApi |-> isTermuxApiAvailable(env.which),
                             battery   |-> SubProbeField(battery),
                             thermal   |-> SubProbeField(thermal),
                             device    |-> SubProbeField(device),
                             timestamp |-> now])
         IN Outcome(Fulfilled(result), 1, AndroidRawErr(env), result, now)

----------------------------------------------------------------------------
(* cpu.js *)

\* A percentage kept exactly, as the fraction num / den with den > 0.
Rat(num, den) == [num |-> num, den |-> den]

Min100_Identity(x) == x

\* Math.min(100, x)
Min100(x) == IF x.num > 100 * x.den THEN Rat(100, 1) ELSE x

\* Math.max(0, x)
Max0(x) == IF x.num < 0 THEN Rat(0, 1) ELSE x

\* x.toFixed(2) for x >= 0, in hundredths of a percent
ToFixed2(x) == (2 * 100 * x.num + x.den) \div (2 * x.den)

\* os.loadavg()[0] * 10, with the load average given in hundredths
LoadEstimate(load100) == Rat(load100, 10)

\* the first line of /proc/stat: user nice system idle iowait irq softirq
StatLine(user, nice, system, idle, iowait, irq, softirq) ==
    [user |-> user, nice |-> nice, system |-> system, idle |-> idle,
     iowait |-> iowait, irq |-> irq, softirq |-> softirq]

StatTotal_NoIowait(l) == l.user + l.nice + l.system + l.idle + l.irq + l.softirq

\* cpuLine.slice(1, 8).reduce(...)
StatTotal(l) == l.user + l.nice + l.system + l.idle + l.iowait + l.irq + l.softirq

\* A call of calculateCpuUsage yields the usage, the number of /proc/stat
\* reads, whether the read raised, and the tracker state it leaves.
CpuUsage(usage, calls, rawErr, sample, time) ==
    [usage |-> usage, calls |-> calls, rawErr |-> rawErr, sample |-> sample, time |-> time]

calculateCpuUsage_ResetOnFailure(stat, load100) ==
    IF platform # "linux"
    THEN CpuUsage(LoadEstimate(load100), 0, FALSE, lastCpuUsage, lastMeasureTime)
    ELSE IF stat.threw
    THEN CpuUsage(Min100(LoadEstimate(load100)), 1, TRUE, Null, 0)
    ELSE LET idle   == stat.value.idle
             iowait == stat.value.iowait
             total  == StatTotal(stat.value)
             sample == Obj([total |-> total, idle |-> idle, iowait |-> iowait])
         IN IF lastCpuUsage # Null /\ lastMeasureTime # 0
            THEN LET totalDiff == total - lastCpuUsage.obj.total
                     idleDiff  == (idle + iowait)
                                  - (lastCpuUsage.obj.idle + lastCpuUsage.obj.iowait)
                     usage     == IF totalDiff > 0
                                  THEN Rat((totalDiff - idleDiff) * 100, totalDiff)
                                  ELSE Rat(0, 1)
                 IN CpuUsage(Max0(Min100(usage)), 1, FALSE, sample, now)
            ELSE CpuUsage(Min100(LoadEstimate(load100)), 1, FALSE, sample, now)

calculateCpuUsage_KeepsOldSample(stat, load100) ==
    IF platform # "linux"
    THEN CpuUsage(LoadEstimate(load100), 0, FALSE, lastCpuUsage, lastMeasureTime)
    ELSE IF stat.threw
    THEN CpuUsage(Min100(LoadEstimate(load100)), 1, TRUE, lastCpuUsage, lastMeasureTime)
    ELSE LET idle   == stat.value.idle
             iowait == stat.value.iowait
             total  == StatTotal(stat.value)
             sample == Obj([total |-> total, idle |-> idle, iowait |-> iowait])
         IN IF lastCpuUsage # Null /\ lastMeasureTime # 0
            THEN LET totalDiff == total - lastCpuUsage.obj.total
                     idleDiff  == (idle + iowait)
                                  - (lastCpuUsage.obj.idle + lastCpuUsage.obj.iowait)
                     usage     == IF totalDiff > 0
                                  THEN Rat((totalDiff - idleDiff) * 100, totalDiff)
                                  ELSE Rat(0, 1)
                 IN CpuUsage(Max0(Min100(usage)), 1, FALSE, lastCpuUsage, lastMeasureTime)
            ELSE CpuUsage(Min100(LoadEstimate(load100)), 1, FALSE, sample, now)

calculateCpuUsage_FullWhenStalled(stat, load100) ==
    IF platform # "linux"
    THEN CpuUsage(LoadEstimate(load100), 0, FALSE, lastCpuUsage, lastMeasureTime)
    ELSE IF stat.threw
    THEN CpuUsage(Min100(LoadEstimate(load100)), 1, TRUE, lastCpuUsage, lastMeasureTime)
    ELSE LET idle   == stat.value.idle
             iowait == stat.value.iowait
             total  == StatTotal(stat.value)
             sample == Obj([total |-> total, idle |-> idle, iowait |-> iowait])
         IN IF lastCpuUsage # Null /\ lastMeasureTime # 0
            THEN LET totalDiff == total - lastCpuUsage.obj.total
                     idleDiff  == (idle + iowait)
                                  - (lastCpuUsage.obj.idle + lastCpuUsage.obj.iowait)
                     usage     == IF totalDiff > 0
                                  THEN Rat((totalDiff - idleDiff) * 100, totalDiff)
                                  ELSE Rat(100, 1)
                 IN CpuUsage(Max0(Min100(usage)), 1, FALSE, sample, now)
            ELSE CpuUsage(Min100(LoadEstimate(load100)), 1, FALSE, sample, now)

\* lastMeasureTime is 0 while the source holds null (both are falsy)
calculateCpuUsage(stat, load100) ==
    IF platform # "linux"
    THEN CpuUsage(LoadEstimate(load100), 0, FALSE, lastCpuUsage, lastMeasureTime)
    ELSE IF stat.threw
    THEN CpuUsage(Min100(LoadEstimate(load100)), 1, TRUE, lastCpuUsage, lastMeasureTime)
    ELSE LET idle   == stat.value.idle
             iowait == stat.value.iowait
             total  == StatTotal(stat.value)
             sample == Obj([total |-> total, idle |-> idle, iowait |-> iowait])
         IN IF lastCpuUsage # Null /\ lastMeasureTime # 0
            THEN LET totalDiff == total - lastCpuUsage.obj.total
                     idleDiff  == (idle + iowait)
                                  - (lastCpuUsage.obj.idle + lastCpuUsage.obj.iowait)
                     usage     == IF totalDiff > 0
                                  THEN Rat((totalDiff - idleDiff) * 100, totalDiff)
                                  ELSE Rat(0, 1)
                 IN CpuUsage(Max0(Min100(usage)), 1, FALSE, sample, now)
            ELSE CpuUsage(Min100(LoadEstimate(load100)), 1, FALSE, sample, now)

\* one entry of os.cpus(): its idle time and the sum of its times
CoreTimes(idle, total) == [idle |-> idle, total |-> total]

\* parseFloat(Math.min(100, coreUsagePercent).toFixed(2)), in hundredths
CoreUsagePercent(cpu) ==
    IF cpu.total > 0
    THEN ToFixed2(Min100(Rat((cpu.total - cpu.idle) * 100, cpu.total)))
    ELSE 0

collectCpuInfo_KeepsZero(os, stat) ==
    IF os.threw
    THEN [settled |-> Fulfilled(Obj([error   |-> "Failed to collect CPU information",
                                     message |-> os.message,
                                     usage   |-> 0,
                                     loadavg |-> 0,
                                     cores   |-> 0])),
          calls |-> 0, rawErr |-> TRUE,
          cache |-> lastCpuUsage, cacheTime |-> lastMeasureTime]
    ELSE LET cpus      == os.value.cpus
             tracker   == calculateCpuUsage(stat, os.value.loadavg)
             coreUsage == [i \in 1..Len(cpus) |->
                              [core |-> i - 1, usage |-> CoreUsagePercent(cpus[i])]]
             usage     == IF tracker.usage.num = 0 /\ Len(cpus) > 0 /\ FALSE
                          THEN Rat(SumSeq([i \in 1..Len(cpus) |-> coreUsage[i].usage]),
                                   100 * Len(cpus))
                          ELSE tracker.usage
         IN [settled |-> Fulfilled(Obj([usage     |-> ToFixed2(usage),
                                        loadavg   |-> os.value.loadavg,
                                        cores     |-> Len(cpus),
                                        coreUsage |-> coreUsage])),
             calls |-> tracker.calls, rawErr |-> tracker.rawErr,
             cache |-> tracker.sample, cacheTime |-> tracker.time]

\* os: what os.cpus() and os.loadavg() give (or a throw); stat: the /proc/stat read
collectCpuInfo(os, stat) ==
    IF os.threw
    THEN [settled |-> Fulfilled(Obj([error   |-> "Failed to collect CPU information",
                                     message |-> os.message,
                                     usage   |-> 0,
                                     loadavg |-> 0,
                                     cores   |-> 0])),
          calls |-> 0, rawErr |-> TRUE,
          cache |-> lastCpuUsage, cacheTime |-> lastMeasureTime]
    ELSE LET cpus      == os.value.cpus
             tracker   == calculateCpuUsage(stat, os.value.loadavg)
             coreUsage == [i \in 1..Len(cpus) |->
                              [core |-> i - 1, usage |-> CoreUsagePercent(cpus[i])]]
             usage     == IF tracker.usage.num = 0 /\ Len(cpus) > 0
                          THEN Rat(SumSeq([i \in 1..Len(cpus) |-> coreUsage[i].usage]),
                                   100 * Len(cpus))
                          ELSE tracker.usage
         IN [settled |-> Fulfilled(Obj([usage     |-> ToFixed2(usage),
                                        loadavg   |-> os.value.loadavg,
                                        cores     |-> Len(cpus),
                                        coreUsage |-> coreUsage])),
             calls |-> tracker.calls, rawErr |-> tracker.rawErr,
             cache |-> tracker.sample, cacheTime |-> tracker.time]

\* the counters grow with time: half of the ticks go to user, half to idle
StatAt(t) == StatLine(200 + t \div 20, 0, 100, 100 + t \div 20, 600, 0, 0)

OsOk ==
    Returned([cpus    |-> <<CoreTimes(600, 1000), CoreTimes(900, 1000)>>,
              loadavg |-> IF platform = "win32" THEN 0 ELSE 150])

\* what os.cpus()/os.loadavg() and the /proc/stat read give in one collection
CpuReads ==
    {[os |-> OsOk, stat |-> Returned(StatAt(now))],
     [os |-> OsOk, stat |-> Thrown("ENOENT /proc/stat")],
     [os |-> Thrown("os failure"), stat |-> Returned(StatAt(now))]}

----------------------------------------------------------------------------
(* index.js: GET /api/metrics *)

\* the `error` string of the slot built for a rejected promise
SlotError(domain) ==
    CASE domain = "host"    -> "Failed to collect host info"
      [] domain = "memory"  -> "Failed to collect memory info"
      [] domain = "cpu"     -> "Failed to collect CPU info"
      [] domain = "disk"    -> "Failed to collect disk info"
      [] domain = "network" -> "Failed to collect network info"
      [] domain = "android" -> "Failed to collect Android info"

\* x.status === 'fulfilled' ? x.value : {error, message: x.reason?.message || 'Unknown error'}
Slot(domain, settled) ==
    IF settled.status = "fulfilled" THEN settled.value
    ELSE ErrorObj(SlotError(domain),
                  IF settled.message # "" THEN settled.message ELSE "Unknown error")

\* the template string `${key}: ${metrics[key].error}`
Warning(key, error) == <<key, ": ", error>>

RECURSIVE Warnings_FlagsUnavailable(_, _)
Warnings_FlagsUnavailable(slots, keys) ==
    IF keys = <<>> THEN <<>>
    ELSE LET key  == Head(keys)
             rest == Warnings_FlagsUnavailable(slots, Tail(keys))
         IN IF HasError(slots[key])
            THEN <<Warning(key, slots[key].obj["error"])>> \o rest
            ELSE IF slots[key].type = "object" /\ "available" \in DOMAIN slots[key].obj
                    /\ slots[key].obj["available"] = FALSE
            THEN <<Warning(key, "unavailable")>> \o rest
            ELSE rest

\* Object.keys(metrics).forEach(...): timestamp and collectionTimeMs are skipped,
\* the six slots are scanned in the order of the literal
RECURSIVE Warnings(_, _)
Warnings(slots, keys) ==
    IF keys = <<>> THEN <<>>
    ELSE LET key  == Head(keys)
             rest == Warnings(slots, Tail(keys))
         IN IF HasError(slots[key])
            THEN <<Warning(key, slots[key].obj["error"])>> \o rest
            ELSE rest

Meta_StatusBug(warnings) ==
    [server   |-> [platform |-> platform],
     warnings |-> IF Len(warnings) > 0 THEN Arr(warnings) ELSE Null,
     status   |-> IF Len(warnings) <= 1 THEN "ok" ELSE "partial"]

\* metrics.meta (the process figures under `server` are left out but platform)
Meta(warnings) ==
    [server   |-> [platform |-> platform],
     warnings |-> IF Len(warnings) > 0 THEN Arr(warnings) ELSE Null,
     status   |-> IF Len(warnings) = 0 THEN "ok" ELSE "partial"]

\* what Date / process.* give while the body is built: values, or a throw
ScaffoldReads == {Returned("2024-01-01T00:00:00.000Z"), Thrown("scaffolding failure")}

\* The handler from the settled promises on.  A throw inside the try ends in
\* the catch block's 500.
Respond_PromiseAll(settled, scaffold) ==
    IF scaffold.threw
    THEN [code |-> 500,
          body |-> [error |-> "Failed to fetch metrics", message |-> scaffold.message]]
    ELSE IF \E d \in Domains : settled[d].status = "rejected"
    THEN [code |-> 500,
          body |-> [error |-> "Failed to fetch metrics", message |-> "probe rejected"]]
    ELSE LET slots == [d \in Domains |-> Slot(d, settled[d])]
         IN [code |-> 200,
             body |-> [timestamp        |-> now,
                       collectionTimeMs |-> 0,
                       slots            |-> slots,
                       meta             |-> Meta(Warnings(slots, DomainOrder))]]

Respond_FailureSpreads(settled, scaffold) ==
    IF scaffold.threw
    THEN [code |-> 500,
          body |-> [error |-> "Failed to fetch metrics", message |-> scaffold.message]]
    ELSE LET failed == \E d \in Domains : settled[d].status = "rejected"
             slots  == [d \in Domains |->
                           Slot(d, IF failed THEN Rejected("") ELSE settled[d])]
         IN [code |-> 200,
             body |-> [timestamp        |-> now,
                       collectionTimeMs |-> 0,
                       slots            |-> slots,
                       meta             |-> Meta(Warnings(slots, DomainOrder))]]

Respond(settled, scaffold) ==
    IF scaffold.threw
    THEN [code |-> 500,
          body |-> [error |-> "Failed to fetch metrics", message |-> scaffold.message]]
    ELSE LET slots == [d \in Domains |-> Slot(d, settled[d])]
         IN [code |-> 200,
             body |-> [timestamp        |-> now,
                       collectionTimeMs |-> 0,
                       slots            |-> slots,
                       meta             |-> Meta(Warnings(slots, DomainOrder))]]

----------------------------------------------------------------------------
(* State machine *)

\* `serial` alternates between 0 and 1 so that every call is a visible step
NoCall == [domain |-> "none", serial |-> 0, at |-> 0, settled |-> Fulfilled(Null),
           calls |-> 0, rawErr |-> FALSE, age |-> -1, served |-> FALSE]

\* Beside the answer, `response` keeps what the request met: the domains whose
\* raw source raised, the raw reads per domain, the promises that rejected and
\* whether building the body threw.
Answered(answer, rawErr, calls, rejected, scaffold) ==
    [code |-> answer.code, body |-> answer.body, rawErr |-> rawErr, calls |-> calls,
     rejected |-> rejected, scaffoldThrew |-> scaffold.threw]

NoResponse ==
    [code |-> 0, body |-> Null, rawErr |-> {}, calls |-> [d \in Domains |-> 0],
     rejected |-> {}, scaffoldThrew |-> FALSE]

\* Beside what the call returned, `tracked` keeps what the call met: the stored
\* sample it found (prior), what the /proc/stat read gave (stat), the load
\* average, what os.cpus() gave (cpus), the usage calculateCpuUsage returned and the collector's result;
\* lastRead is the sample of the most recent /proc/stat read that succeeded.
NoSample ==
    [called |-> FALSE, prior |-> Null, stat |-> Thrown(""), load100 |-> 0, cpus |-> <<>>,
     usage |-> Rat(0, 1), result |-> Null, lastRead |-> Thrown("")]

NoApplication == [fn |-> "none", input |-> Null, output |-> Null]

\* The hook before its component mounts: useState(null), useState(true),
\* useState(null).  `pending` counts the fetches in flight and `stale` those of
\* them that were issued before the fetch whose data `metrics` holds; `serial`
\* alternates with every fetch issued; `completed` says that a fetch has
\* settled while the component was mounted and `received` that one of them
\* brought data; `settled` is the fetch that
\* settled last, the error and the metrics it found, and whether its data
\* replaced the data of a fetch issued after it.
NotMounted ==
    [phase |-> "idle", metrics |-> Null, loading |-> TRUE, error |-> Null,
     pending |-> 0, stale |-> 0, serial |-> 0, completed |-> FALSE, received |-> FALSE,
     settled |-> [ok |-> FALSE, data |-> Null, errorBefore |-> Null,
                  metricsBefore |-> Null, regressed |-> FALSE]]

Init ==
    /\ platform \in Platforms
    /\ now = 1000
    /\ diskCache = Null /\ diskCacheTime = 0
    /\ networkCache = Null /\ networkCacheTime = 0
    /\ androidCache = Null /\ androidCacheTime = 0
    /\ lastCpuUsage = Null /\ lastMeasureTime = 0
    /\ last = NoCall
    /\ response = NoResponse
    /\ inflight = <<>>
    /\ tracked = NoSample
    /\ applied = NoApplication
    /\ hook = NotMounted

\* the clock moves on between two calls
Tick ==
    /\ \E t \in TimePoints : t > now /\ now' = t
    /\ UNCHANGED <<platform, caches, last, response, inflight, tracked, applied, hook>>

\* the module-level cache of a collector (host, memory and cpu keep none)
CacheOf(domain) ==
    CASE domain = "disk"    -> diskCache
      [] domain = "network" -> networkCache
      [] domain = "android" -> androidCache
      [] OTHER              -> Null

CacheTimeOf(domain) ==
    CASE domain = "disk"    -> diskCacheTime
      [] domain = "network" -> networkCacheTime
      [] domain = "android" -> androidCacheTime
      [] OTHER              -> 0

\* the platforms on which a collector has an external source to read
HasRawSource(domain) ==
    CASE domain = "network" -> platform \in {"linux", "win32"}
      [] domain = "android" -> platform = "linux"
      [] OTHER              -> TRUE

\* What one collector call leaves in `last`.  `age` is now - cacheTime of the
\* entry the call found (-1: it found none); `served` says that the call handed
\* that entry back: its result is the entry, it read nothing and it left the
\* entry's timestamp alone.
Observe(domain, o) ==
    last' = [domain |-> domain, serial |-> 1 - last.serial, at |-> now,
             settled |-> o.settled, calls |-> o.calls, rawErr |-> o.rawErr,
             age     |-> IF CacheOf(domain) # Null THEN now - CacheTimeOf(domain) ELSE -1,
             served  |-> /\ CacheOf(domain) # Null
                         /\ o.settled = Fulfilled(CacheOf(domain))
                         /\ o.calls = 0
                         /\ o.cacheTime = CacheTimeOf(domain)]

HostOutcome(os) == Outcome(Fulfilled(collectHostInfo(os)), 1, os.threw, Null, 0)

MemoryOutcome(os) == Outcome(Fulfilled(collectMemoryInfo(os)), 1, os.threw, Null, 0)

FetchHost ==
    /\ \E o \in {HostOutcome(os) : os \in HostReads} : Observe("host", o)
    /\ UNCHANGED <<platform, now, caches, response, inflight, tracked, applied, hook>>

FetchMemory ==
    /\ \E o \in {MemoryOutcome(os) : os \in MemoryReads} : Observe("memory", o)
    /\ UNCHANGED <<platform, now, caches, response, inflight, tracked, applied, hook>>

FetchCpu ==
    /\ \E o \in {collectCpuInfo(r.os, r.stat) : r \in CpuReads} :
          /\ lastCpuUsage' = o.cache
          /\ lastMeasureTime' = o.cacheTime
          /\ Observe("cpu", o)
    /\ UNCHANGED <<platform, now, diskCache, diskCacheTime, networkCache,
                   networkCacheTime, androidCache, androidCacheTime, response, inflight, tracked, applied, hook>>

FetchDisk_ClearsNetwork ==
    /\ \E o \in {collectDiskInfo(exec) : exec \in DiskReads} :
          /\ diskCache' = o.cache
          /\ diskCacheTime' = o.cacheTime
          /\ Observe("disk", o)
    /\ networkCache' = Null
    /\ networkCacheTime' = 0
    /\ UNCHANGED <<platform, now, androidCache,
                   androidCacheTime, lastCpuUsage, lastMeasureTime, response, inflight, tracked, applied, hook>>

FetchDisk ==
    /\ \E o \in {collectDiskInfo(exec) : exec \in DiskReads} :
          /\ diskCache' = o.cache
          /\ diskCacheTime' = o.cacheTime
          /\ Observe("disk", o)
    /\ UNCHANGED <<platform, now, networkCache, networkCacheTime, androidCache,
                   androidCacheTime, lastCpuUsage, lastMeasureTime, response, inflight, tracked, applied, hook>>

FetchNetwork ==
    /\ \E o \in {collectNetworkInfo(read) : read \in NetworkReads} :
          /\ networkCache' = o.cache
          /\ networkCacheTime' = o.cacheTime
          /\ Observe("network", o)
    /\ UNCHANGED <<platform, now, diskCache, diskCacheTime, androidCache,
                   androidCacheTime, lastCpuUsage, lastMeasureTime, response, inflight, tracked, applied, hook>>

FetchAndroid ==
    /\ \E o \in {collectAndroidInfo(env) : env \in AndroidReads} :
          /\ androidCache' = o.cache
          /\ androidCacheTime' = o.cacheTime
          /\ Observe("android", o)
    /\ UNCHANGED <<platform, now, diskCache, diskCacheTime, networkCache,
                   networkCacheTime, lastCpuUsage, lastMeasureTime, response, inflight, tracked, applied, hook>>

\* GET /api/metrics: the six collectors are called in the order of the array
\* literal, each running to its end before the next starts; none shares state
\* with another, so each is evaluated on the state the request found.
Handle ==
    \E host    \in {HostOutcome(os) : os \in HostReads},
          memory  \in {MemoryOutcome(os) : os \in MemoryReads},
          cpu     \in {collectCpuInfo(r.os, r.stat) : r \in CpuReads},
          disk    \in {collectDiskInfo(exec) : exec \in DiskReads},
          network \in {collectNetworkInfo(read) : read \in NetworkReads},
          android \in {collectAndroidInfo(env) : env \in AndroidReads},
          scaffold \in ScaffoldReads :
          \E o \in {[host |-> host, memory |-> memory, cpu |-> cpu, disk |-> disk,
                     network |-> network, android |-> android]} :
          \E answer \in {Respond([d \in Domains |-> o[d].settled], scaffold)} :
             /\ lastCpuUsage' = cpu.cache
             /\ lastMeasureTime' = cpu.cacheTime
             /\ diskCache' = disk.cache
             /\ diskCacheTime' = disk.cacheTime
             /\ networkCache' = network.cache
             /\ networkCacheTime' = network.cacheTime
             /\ androidCache' = android.cache
             /\ androidCacheTime' = android.cacheTime
             /\ response' = Answered(answer,
                                      {d \in Domains : o[d].rawErr},
                                      [d \in Domains |-> o[d].calls],
                                      {d \in Domains : o[d].settled.status = "rejected"},
                                      scaffold)

Metrics ==
    /\ Handle
    /\ UNCHANGED <<platform, now, last, inflight, tracked, applied, hook>>

\* the clock moves on between two requests
NextRequest ==
    /\ \E t \in RequestTimes : t > now /\ now' = t
    /\ UNCHANGED <<platform, caches, last, response, inflight, tracked, applied, hook>>

\* the server: requests to /api/metrics as time passes
Next == Metrics \/ NextRequest

Spec == Init /\ [][Next]_vars

\* the collectors called one at a time, as each module exports them
NextProbes ==
    \/ FetchHost
    \/ FetchMemory
    \/ FetchCpu
    \/ FetchDisk
    \/ FetchNetwork
    \/ FetchAndroid
    \/ Tick

SpecProbes == Init /\ [][NextProbes]_vars

\* The handler from the settled promises on, for every way the six promises
\* can settle: with a payload, with a failure payload, or rejected.
SettledInputs ==
    {Fulfilled(Obj([value |-> 1])),
     Fulfilled(ErrorObj("Failed to collect", "reason")),
     Rejected("boom"),
     Rejected("")}

\* The answer depends on nothing but the settled promises and the
\* scaffolding, so one request per behaviour covers every case.
AggregateSettled ==
    /\ response = NoResponse
    /\ \E settled \in [Domains -> SettledInputs], scaffold \in ScaffoldReads :
          \E answer \in {Respond(settled, scaffold)} :
             /\ response' = Answered(answer, {}, [d \in Domains |-> 0],
                                     {d \in Domains : settled[d].status = "rejected"},
                                     scaffold)
             /\ applied' = [fn |-> "Respond", input |-> settled, output |-> answer]
    /\ UNCHANGED <<platform, now, caches, last, inflight, tracked, hook>>

NextAgg == AggregateSettled

SpecAgg == Init /\ [][NextAgg]_vars

\* Overlapping calls of collectAndroidInfo.  The function suspends once, at
\* `await Promise.allSettled([...])`: by then it has read `now`, missed the cache
\* and run the three sub-probes (their bodies hold no await).  A second call
\* made before the first continues also misses the cache.  The other
\* collectors hold no await before their cache write: their calls cannot
\* overlap.

\* the most calls suspended at once
MaxInFlight == 2

Suspended(at, battery, thermal, device, rawErr) ==
    [at |-> at, battery |-> battery, thermal |-> thermal, device |-> device,
     rawErr |-> rawErr]

Resumable_AnyOrder(queue) == DOMAIN queue

\* The promise jobs that continue the suspended calls are queued in the order
\* in which the calls reached their await, and run in that order.
Resumable(queue) == IF queue = <<>> THEN {} ELSE {1}

\* collectAndroidInfo from its entry to its await
BeginAndroid ==
    /\ platform = "linux"
    /\ ~(androidCache # Null /\ (now - androidCacheTime) < ANDROID_CACHE_TTL)
    /\ Len(inflight) < MaxInFlight
    /\ \E call \in {Suspended(now,
                              Fulfilled(getBatteryInfo(env.which, env.battery)),
                              Fulfilled(getThermalInfo(env.which, env.sys)),
                              Fulfilled(getDeviceInfo(env.which, env.getprop, env.version)),
                              AndroidRawErr(env)) : env \in AndroidReads} :
          inflight' = Append(inflight, call)
    /\ UNCHANGED <<platform, now, caches, last, response, tracked, applied, hook>>

\* collectAndroidInfo from its await to its return: `now` is still the value
\* read on entry, isTermuxApiAvailable() and new Date() are evaluated here
ResumeAndroid ==
    /\ \E i \in Resumable(inflight), which \in {WhichOk, Thrown("which: exit 1")} :
          \E result \in {Obj([available |-> TRUE,
                               termuxApi |-> isTermuxApiAvailable(which),
                               battery   |-> SubProbeField(inflight[i].battery),
                               thermal   |-> SubProbeField(inflight[i].thermal),
                               device    |-> SubProbeField(inflight[i].device),
                               timestamp |-> now])} :
             /\ androidCache' = result
             /\ androidCacheTime' = inflight[i].at
             /\ inflight' = [j \in 1..(Len(inflight) - 1) |->
                                IF j < i THEN inflight[j] ELSE inflight[j + 1]]
             /\ Observe("android",
                        Outcome(Fulfilled(result), 1, inflight[i].rawErr \/ which.threw,
                                result, inflight[i].at))
    /\ UNCHANGED <<platform, now, diskCache, diskCacheTime, networkCache,
                   networkCacheTime, lastCpuUsage, lastMeasureTime, response, tracked, applied, hook>>

\* the calls of collectAndroidInfo that return before the await: a cache hit,
\* or a platform other than linux
ReturnAndroid ==
    /\ \/ platform # "linux"
       \/ androidCache # Null /\ (now - androidCacheTime) < ANDROID_CACHE_TTL
    /\ \E o \in {collectAndroidInfo(env) : env \in AndroidReads} :
          /\ androidCache' = o.cache
          /\ androidCacheTime' = o.cacheTime
          /\ Observe("android", o)
    /\ UNCHANGED <<platform, now, diskCache, diskCacheTime, networkCache,
                   networkCacheTime, lastCpuUsage, lastMeasureTime, response, inflight, tracked, applied, hook>>

NextOverlap ==
    \/ BeginAndroid
    \/ ResumeAndroid
    \/ ReturnAndroid
    \/ Tick

SpecOverlap == Init /\ [][NextOverlap]_vars

\* The CPU usage calculation on its own, for every order of /proc/stat
\* readings.  The counters are cumulative, but a read may find them at the
\* values of the read before (same tick) or below them (the counters wrapped
\* or were reset); idle and iowait may move either way.

UserTicks == {900, 950, 960}

IdleTicks == {100, 150}

IowaitTicks == {0, 50}

\* what fs.readFileSync('/proc/stat') gives: a first line, or a throw
StatReads ==
    {Returned(StatLine(u, 0, 0, i, w, 0, 0)) :
         u \in UserTicks, i \in IdleTicks, w \in IowaitTicks}
    \cup {Thrown("ENOENT /proc/stat")}

\* os.loadavg()[0] in hundredths: 1.5 and 12.5; on Windows os.loadavg() is
\* always [0, 0, 0]
Loads == IF platform = "win32" THEN {0} ELSE {150, 1250}

\* os.cpus() and os.loadavg() for one collection
OsWith(cpus, load100) == Returned([cpus |-> cpus, loadavg |-> load100])

\* the sum of the seven counters of a /proc/stat line
TotalTicks(l) == l.user + l.nice + l.system + l.idle + l.iowait + l.irq + l.softirq

\* one call of collectCpuInfo, which calls calculateCpuUsage once
SampleCpu ==
    /\ \E stat \in StatReads, load100 \in Loads,
          cpus \in {<<CoreTimes(600, 1000), CoreTimes(900, 1000)>>, <<CoreTimes(0, 0)>>, <<>>} :
          /\ \E t \in {calculateCpuUsage(stat, load100)},
                o \in {collectCpuInfo(OsWith(cpus, load100), stat)} :
                /\ lastCpuUsage' = o.cache
                /\ lastMeasureTime' = o.cacheTime
                /\ tracked' = [called   |-> TRUE,
                               prior    |-> lastCpuUsage,
                               stat     |-> stat,
                               load100  |-> load100,
                               cpus     |-> cpus,
                               usage    |-> t.usage,
                               result   |-> o.settled.value,
                               lastRead |-> IF platform = "linux" /\ ~stat.threw
                                            THEN stat ELSE tracked.lastRead]
    /\ UNCHANGED <<platform, now, diskCache, diskCacheTime, networkCache, networkCacheTime,
                   androidCache, androidCacheTime, last, response, inflight, applied, hook>>

NextTracker == SampleCpu \/ Tick

SpecTracker == Init /\ [][NextTracker]_vars

\* collectAndroidInfo() called on its own, each external call of its
\* sub-probes succeeding or raising independently of the others
AssembleAndroid ==
    /\ \E a \in {[fn |-> "collectAndroidInfo", input |-> env,
                   output |-> collectAndroidInfo(env)] : env \in AndroidCombos} :
           /\ applied' = a
           /\ androidCache' = a.output.cache
           /\ androidCacheTime' = a.output.cacheTime
    /\ UNCHANGED <<platform, now, diskCache, diskCacheTime, networkCache, networkCacheTime,
                   lastCpuUsage, lastMeasureTime, last, response, inflight, tracked, hook>>

SpecAndroid == Init /\ [][AssembleAndroid \/ Tick]_vars

\* The external calls the collectors make.  Each is synchronous (execSync,
\* fs.readFileSync, fs.readdirSync): while one is blocked nothing else runs.
\* `timeout` is the call's `timeout` option in milliseconds, 0 where the call
\* passes none (the fs calls take no such option).
ExternalCalls ==
    LET ExternalCall(name, timeout, platforms) ==
            [name |-> name, timeout |-> timeout, platforms |-> platforms]
    IN
    {ExternalCall("wmic logicaldisk", 5000, {"win32"}),
     ExternalCall("df -kP", 5000, {"linux", "darwin"}),
     ExternalCall("read /proc/net/dev", 0, {"linux"}),
     ExternalCall("netstat -e", 3000, {"win32"}),
     ExternalCall("which termux-battery-status", 1000, {"linux"}),
     ExternalCall("termux-battery-status", 5000, {"linux"}),
     ExternalCall("readdir /sys/class/thermal", 0, {"linux"}),
     ExternalCall("getprop", 2000, {"linux"}),
     ExternalCall("read /proc/version", 0, {"linux"}),
     ExternalCall("read /proc/stat", 0, {"linux"})}

\* the longest bound any call carries
LongestTimeout ==
    CHOOSE t \in {c.timeout : c \in ExternalCalls} :
        \A c \in ExternalCalls : c.timeout <= t

\* a call has been made and has neither returned nor raised
CallPending == applied.fn = "call" /\ applied.output = Null

\* A collector makes one of its calls; the tool or file answers, or hangs.
StartCall ==
    /\ ~CallPending
    /\ \E c \in {x \in ExternalCalls : platform \in x.platforms}, hangs \in BOOLEAN :
           applied' = [fn |-> "call",
                       input |-> [call |-> c, hangs |-> hangs, at |-> now],
                       output |-> Null]
    /\ UNCHANGED <<platform, now, caches, last, response, inflight, tracked, hook>>

\* the tool or file answers: the call returns, or raises (missing tool or file)
ReturnCall ==
    /\ CallPending /\ ~applied.input.hangs
    /\ \E out \in {Returned("output"), Thrown("ENOENT")} :
           applied' = [applied EXCEPT !.output = out]
    /\ UNCHANGED <<platform, now, caches, last, response, inflight, tracked, hook>>

\* Time passes while the call is blocked.  A child process started with a
\* `timeout` is killed once the bound is over and execSync raises ETIMEDOUT;
\* a call without one stays blocked.
WaitCall ==
    /\ CallPending /\ applied.input.hangs
    /\ \E t \in TimePoints :
           /\ t > now
           /\ now' = t
           /\ applied' = [applied EXCEPT !.output =
                              IF applied.input.call.timeout > 0
                                 /\ t - applied.input.at >= applied.input.call.timeout
                              THEN Thrown("ETIMEDOUT") ELSE Null]
    /\ UNCHANGED <<platform, caches, last, response, inflight, tracked, hook>>

\* time passes between two calls
IdleCall == ~CallPending /\ Tick

SpecCalls == Init /\ [][StartCall \/ ReturnCall \/ WaitCall \/ IdleCall]_vars

\* Lines a `df -kP` listing may hold: real volumes, one line per clause of the
\* filter (with small and with full usage), a line of five columns (a wrapped
\* filesystem name) and a line of seven (a mountpoint with a space in it).
DfLines ==
    {DfLine(6, S_devroot, 100000, 40000, 60000, 40, S_root),
     DfLine(6, S_overlay, 200, 100, 90, 53, S_data),
     DfLine(7, S_overlay, 300, 300, 0, 100, S_data),
     DfLine(5, S_devroot, 100000, 40000, 60000, 40, S_root),
     DfLine(6, S_tmpfs, 500, 500, 0, 100, S_devshm),
     DfLine(6, S_tmpfs, 8000000, 0, 8000000, 0, S_data),
     DfLine(6, S_udev, 4000, 0, 4000, 0, S_data),
     DfLine(6, S_devloop \o <<"0">>, 56000, 56000, 0, 100, S_data),
     DfLine(6, S_devroot, 56000, 56000, 0, 100, S_snap \o <<"c", "o", "r", "e">>),
     DfLine(6, S_devroot, 1000, 10, 990, 1, S_sys \o <<"/", "f", "s">>),
     DfLine(6, S_devroot, 1000, 10, 990, 1, S_proc),
     DfLine(6, S_devroot, 1000, 1000, 0, 100, S_run \o <<"/", "l", "o", "c", "k">>)}

\* the most lines below the header of a listing
MaxDfLines == 3

\* parseDfOutput() applied to a listing (the collector calls it off win32).
\* The function keeps no state: one application per behaviour covers it.
ParseDf ==
    /\ platform # "win32"
    /\ applied = NoApplication
    /\ \E output \in UNION {[1..n -> DfLines] : n \in 0..MaxDfLines} :
           applied' = [fn |-> "parseDfOutput", input |-> output,
                       output |-> parseDfOutput(output)]
    /\ UNCHANGED <<platform, now, caches, last, response, inflight, tracked, hook>>

SpecDf == Init /\ [][ParseDf]_vars

\* Lines /proc/net/dev may hold below its two header lines: the loopback, an
\* interface with traffic, one with no inbound byte, one listed with fewer
\* columns than the parser asks for, and a second interface with traffic.
NetLines ==
    {NetLine(17, "lo", Counters(900, 9, 0, 0), Counters(900, 9, 0, 0)),
     NetLine(17, "wlan0", Counters(5000, 50, 1, 0), Counters(3000, 30, 0, 2)),
     NetLine(17, "eth0", Counters(0, 0, 0, 0), Counters(40, 1, 0, 0)),
     NetLine(16, "rmnet0", Counters(700, 7, 0, 0), Counters(70, 7, 0, 0)),
     NetLine(17, "usb0", Counters(1, 1, 0, 0), Counters(0, 0, 0, 0))}

\* the most interface lines of /proc/net/dev
MaxNetLines == 3

\* what the raw source of the network collector may give on each platform
NetReadings ==
    IF platform = "linux"
    THEN {Returned(lines) : lines \in UNION {[1..n -> NetLines] : n \in 0..MaxNetLines}}
         \cup {Thrown("ENOENT /proc/net/dev")}
    ELSE IF platform = "win32"
    THEN {Returned(<<5000, 10>>), Returned(<<0>>), Returned(<<>>),
          Thrown("spawnSync netstat ENOENT")}
    ELSE {Returned(<<>>)}

\* collectNetworkInfo() called once on an empty cache
CollectNet ==
    /\ applied = NoApplication
    /\ \E a \in {[fn |-> "collectNetworkInfo", input |-> read,
                   output |-> collectNetworkInfo(read)] : read \in NetReadings} :
           /\ applied' = a
           /\ networkCache' = a.output.cache
           /\ networkCacheTime' = a.output.cacheTime
    /\ UNCHANGED <<platform, now, diskCache, diskCacheTime, androidCache, androidCacheTime,
                   lastCpuUsage, lastMeasureTime, last, response, inflight, tracked, hook>>

SpecNet == Init /\ [][CollectNet]_vars

\* Header values and tokens are sequences of characters, so that
\* authHeader.split(' ') is computed; an absent header and an unset AUTH_TOKEN
\* are the empty string (both are falsy, as the empty string is).
S_Bearer == <<"B", "e", "a", "r", "e", "r">>

\* String.prototype.split(' ')
RECURSIVE SplitSpace(_)
SplitSpace(s) ==
    IF \A i \in 1..Len(s) : s[i] # " " THEN <<s>>
    ELSE LET i == CHOOSE k \in 1..Len(s) : s[k] = " " /\ \A j \in 1..(k - 1) : s[j] # " "
         IN <<SubSeq(s, 1, i - 1)>> \o SplitSpace(SubSeq(s, i + 1, Len(s)))

\* what the middleware does with a request: it calls next(), or it answers
\* with a status
authenticateToken(authToken, authHeader) ==
    IF authToken = <<>> THEN [next |-> TRUE, status |-> 0]
    ELSE LET parts == SplitSpace(authHeader)
             token == IF authHeader # <<>> /\ Len(parts) >= 2 THEN parts[2] ELSE <<>>
         IN IF token = <<>> \/ token # authToken THEN [next |-> FALSE, status |-> 401]
            ELSE [next |-> TRUE, status |-> 0]

\* AUTH_TOKEN: unset, or a token
AuthTokens == {<<>>, <<"s", "3", "c">>}

\* the Authorization header: absent, or a scheme word and a token spelled in
\* several ways
AuthHeaders ==
    LET secret == <<"s", "3", "c">>
        wrong  == <<"s", "3">>
        basic  == <<"B", "a", "s", "i", "c">>
    IN {<<>>,
        S_Bearer \o <<" ">> \o secret,
        S_Bearer \o <<" ">> \o wrong,
        S_Bearer \o <<" ">> \o secret \o <<"x">>,
        S_Bearer \o <<" ", " ">> \o secret,
        S_Bearer \o <<" ">> \o secret \o <<" ", "x">>,
        basic \o <<" ">> \o secret,
        S_Bearer,
        secret}

\* One request.  /health is registered before the middleware and answers by
\* itself; a request under /api goes through authenticateToken and, when that
\* calls next(), on to the metrics handler.
Request ==
    /\ applied = NoApplication
    /\ \E authToken \in AuthTokens, authHeader \in AuthHeaders,
          path \in {"/health", "/api/metrics"} :
          \E verdict \in {IF path = "/health" THEN [next |-> FALSE, status |-> 200]
                          ELSE authenticateToken(authToken, authHeader)} :
             /\ applied' = [fn |-> "request",
                            input |-> [authToken |-> authToken, authHeader |-> authHeader,
                                       path |-> path],
                            output |-> verdict]
             /\ IF verdict.next
                THEN Handle
                ELSE UNCHANGED <<caches, response>>
    /\ UNCHANGED <<platform, now, last, inflight, tracked, hook>>

SpecAuth == Init /\ [][Request]_vars

\* The dashboard's useMetrics hook.  fetchMetrics() is issued once when the
\* effect runs and then by setInterval, whether or not earlier fetches have
\* settled; each fetch settles on its own and sets the state.

\* the most fetches in flight that are told apart (the count saturates there)
MaxPending == 2

\* what `await fetch(...)` and `await response.json()` give: the snapshot, or
\* a throw (network error, `!response.ok`, malformed body)
FetchResults ==
    {Returned(Obj([timestamp |-> 1])), Returned(Obj([timestamp |-> 2])),
     Thrown("HTTP 500: Internal Server Error"), Thrown("Failed to fetch")}

\* fetchMetrics() is called: the new fetch is the last one issued
IssueFetch ==
    [hook EXCEPT !.pending = IF hook.pending < MaxPending THEN hook.pending + 1
                             ELSE MaxPending,
                 !.stale = IF hook.pending = MaxPending /\ hook.stale = MaxPending
                           THEN MaxPending - 1 ELSE hook.stale,
                 !.serial = 1 - hook.serial]

\* the effect runs: the initial fetchMetrics() and setInterval
Mount ==
    /\ hook.phase = "idle"
    /\ hook' = [IssueFetch EXCEPT !.phase = "mounted"]
    /\ UNCHANGED <<platform, now, caches, last, response, inflight, tracked, applied>>

TimerFires_StopsOnError ==
    /\ hook.phase = "mounted"
    /\ hook.error = Null
    /\ hook' = IssueFetch
    /\ UNCHANGED <<platform, now, caches, last, response, inflight, tracked, applied>>

\* setInterval(fetchMetrics, interval) fires
TimerFires ==
    /\ hook.phase = "mounted"
    /\ hook' = IssueFetch
    /\ UNCHANGED <<platform, now, caches, last, response, inflight, tracked, applied>>

Settle_ClearsMetrics ==
    /\ hook.pending > 0
    /\ \E result \in FetchResults, i \in 1..hook.pending,
          left \in (IF hook.pending = MaxPending THEN {MaxPending - 1, MaxPending}
                    ELSE {hook.pending - 1}) :
          hook' = IF hook.phase # "mounted"
                  THEN [hook EXCEPT !.pending = left,
                                    !.stale = IF i <= hook.stale THEN hook.stale - 1
                                              ELSE hook.stale]
                  ELSE IF result.threw
                  THEN [hook EXCEPT !.pending = left,
                                    !.stale = IF i <= hook.stale THEN hook.stale - 1
                                              ELSE hook.stale,
                                    !.metrics = Null,
                                    !.error = [type |-> "string", str |-> result.message],
                                    !.loading = FALSE,
                                    !.completed = TRUE,
                                    !.settled = [ok |-> FALSE, data |-> Null,
                                                 errorBefore |-> hook.error,
                                                 metricsBefore |-> hook.metrics,
                                                 regressed |-> FALSE]]
                  ELSE [hook EXCEPT !.pending = left,
                                    !.stale = i - 1,
                                    !.metrics = result.value,
                                    !.error = Null,
                                    !.loading = FALSE,
                                    !.completed = TRUE,
                                    !.received = TRUE,
                                    !.settled = [ok |-> TRUE, data |-> result.value,
                                                 errorBefore |-> hook.error,
                                                 metricsBefore |-> hook.metrics,
                                                 regressed |-> i <= hook.stale]]
    /\ UNCHANGED <<platform, now, caches, last, response, inflight, tracked, applied>>

\* One of the fetches in flight settles, the i-th in the order of issue: the
\* try block's setMetrics / setError(null) / setLoading(false), or the catch
\* block's setError(err.message) / setLoading(false).  Nothing ties a response
\* to the order of issue.  After the unmount the state of the component is
\* gone and the setters change nothing.
Settle ==
    /\ hook.pending > 0
    /\ \E result \in FetchResults, i \in 1..hook.pending,
          left \in (IF hook.pending = MaxPending THEN {MaxPending - 1, MaxPending}
                    ELSE {hook.pending - 1}) :
          hook' = IF hook.phase # "mounted"
                  THEN [hook EXCEPT !.pending = left,
                                    !.stale = IF i <= hook.stale THEN hook.stale - 1
                                              ELSE hook.stale]
                  ELSE IF result.threw
                  THEN [hook EXCEPT !.pending = left,
                                    !.stale = IF i <= hook.stale THEN hook.stale - 1
                                              ELSE hook.stale,
                                    !.error = [type |-> "string", str |-> result.message],
                                    !.loading = FALSE,
                                    !.completed = TRUE,
                                    !.settled = [ok |-> FALSE, data |-> Null,
                                                 errorBefore |-> hook.error,
                                                 metricsBefore |-> hook.metrics,
                                                 regressed |-> FALSE]]
                  ELSE [hook EXCEPT !.pending = left,
                                    !.stale = i - 1,
                                    !.metrics = result.value,
                                    !.error = Null,
                                    !.loading = FALSE,
                                    !.completed = TRUE,
                                    !.received = TRUE,
                                    !.settled = [ok |-> TRUE, data |-> result.value,
                                                 errorBefore |-> hook.error,
                                                 metricsBefore |-> hook.metrics,
                                                 regressed |-> i <= hook.stale]]
    /\ UNCHANGED <<platform, now, caches, last, response, inflight, tracked, applied>>

\* what App renders from the hook's state
View(h) ==
    IF h.loading THEN "loading"
    ELSE IF h.error # Null /\ h.metrics = Null THEN "connection error"
    ELSE "dashboard"

\* the effect's cleanup: clearInterval(intervalId)
Unmount ==
    /\ hook.phase = "mounted"
    /\ hook' = [hook EXCEPT !.phase = "unmounted"]
    /\ UNCHANGED <<platform, now, caches, last, response, inflight, tracked, applied>>

\* An interval timer that is not cleared keeps firing.
SpecPolling ==
    Init /\ [][Mount \/ TimerFires \/ Settle \/ Unmount]_vars /\ WF_vars(TimerFires)

----------------------------------------------------------------------------
(* Properties *)

\* a value that carries a failure descriptor: an object with a truthy `error`,
\* or an array holding such an object
ReportsFailure(v) ==
    \/ HasError(v)
    \/ (v.type = "array" /\ \E i \in 1..Len(v.elems) : HasError(v.elems[i]))

\* the `error` string of a value that reports a failure
ErrorOf(v) ==
    IF HasError(v) THEN v.obj["error"]
    ELSE (v.elems[CHOOSE i \in 1..Len(v.elems) : HasError(v.elems[i])]).obj["error"]

Snapshot == response.code = 200

Slots == response.body.slots

WarningList ==
    IF response.body.meta.warnings = Null THEN <<>> ELSE response.body.meta.warnings.elems

\* the window within which a repeated call must be served from the cache; the
\* collectors that keep no TTL get the narrowest one (the same instant)
Ttl(domain) ==
    CASE domain = "disk"    -> DISK_CACHE_TTL
      [] domain = "network" -> NETWORK_CACHE_TTL
      [] domain = "android" -> ANDROID_CACHE_TTL
      [] OTHER              -> 1

\* C1: whenever a domain's collector reports a failure, the domain's slot is
\* itself an object with the keys `error` and `message`, so that checking the
\* slot for `error` detects the failure.
C1_FailureSlotIsErrorObject ==
    Snapshot =>
        \A d \in Domains :
            ReportsFailure(Slots[d]) =>
                /\ HasError(Slots[d])
                /\ "message" \in DOMAIN Slots[d].obj

\* C2: when the raw sources of all six domains fail in one cycle, the
\* snapshot has status "partial" and exactly six warnings.
C2_AllFailSixWarnings ==
    (Snapshot /\ response.rawErr = Domains) =>
        /\ response.body.meta.status = "partial"
        /\ Len(WarningList) = 6

\* C3: when only the network source fails in a cycle, the snapshot is
\* "partial" with exactly one warning, which names network, and no other slot
\* reports a failure.
C3_NetworkFailOneWarning ==
    (Snapshot /\ response.rawErr = {"network"}) =>
        /\ response.body.meta.status = "partial"
        /\ Len(WarningList) = 1
        /\ WarningList[1][1] = "network"
        /\ \A d \in Domains \ {"network"} : ~ReportsFailure(Slots[d])

\* C4: the warning list holds exactly one "<domain>: <error>" for each slot
\* that holds a failure and nothing for the other slots; its length is the
\* number of failed domains.
C4_OneWarningPerFailedSlot ==
    Snapshot =>
        /\ \A d \in Domains :
              Cardinality({i \in 1..Len(WarningList) : WarningList[i][1] = d})
                  = IF ReportsFailure(Slots[d]) THEN 1 ELSE 0
        /\ \A d \in Domains :
              ReportsFailure(Slots[d]) =>
                  \E i \in 1..Len(WarningList) :
                      WarningList[i] = Warning(d, ErrorOf(Slots[d]))
        /\ Len(WarningList) = Cardinality({d \in Domains : ReportsFailure(Slots[d])})

\* C5: the status of a snapshot is "ok" exactly when it carries no warning and
\* "partial" otherwise; there is no third status.
C5_StatusFollowsWarnings ==
    Snapshot =>
        /\ response.body.meta.status \in {"ok", "partial"}
        /\ (response.body.meta.status = "ok") <=> (WarningList = <<>>)
        /\ (response.body.meta.warnings = Null) <=> (WarningList = <<>>)

C5_Witness ==
    /\ Snapshot
    /\ response.body.meta.status = "partial"
    /\ Len(WarningList) = 1

\* C6: however the six promises settle, rejections included, the request is
\* answered with a snapshot holding all six slots; it is answered 500 exactly
\* when building the body itself threw.
C6_OnlyScaffoldingFails ==
    response.code # 0 =>
        /\ response.code \in {200, 500}
        /\ (response.code = 500) <=> response.scaffoldThrew
        /\ (response.code = 200) => DOMAIN Slots = Domains

C6_Witness ==
    /\ Snapshot
    /\ response.rejected = Domains
    /\ \A d \in Domains : HasError(Slots[d])

\* C7: whatever its raw source does, a collector call settles fulfilled: no
\* error of the raw source reaches the caller as a rejection.
C7_NoErrorEscapes ==
    last.domain # "none" => last.settled.status = "fulfilled"

C7_Witness ==
    /\ last.domain = "disk"
    /\ last.rawErr
    /\ last.settled.status = "fulfilled"

\* C8: whenever the raw source of a collector raises, the call returns a
\* result that carries the failure descriptor.
C8_RawErrorIsFailureResult ==
    (last.domain # "none" /\ last.rawErr) =>
        /\ last.settled.status = "fulfilled"
        /\ ReportsFailure(last.settled.value)

\* C9: of two successive calls of one collector within its TTL window at most
\* one reads the raw source, and the second returns what the first returned.
C9_TwoFetchesOneRead ==
    [][(/\ last'.serial # last.serial
        /\ last'.domain = last.domain
        /\ last'.at - last.at < Ttl(last.domain))
       => (/\ last.calls + last'.calls <= 1
           /\ last'.settled = last.settled)]_vars

\* C10: after a call whose raw source failed, a second call of the same
\* collector within the TTL returns the same failure without reading the raw
\* source again (stated for the three collectors that own a cache).
C10_FailureIsCached ==
    [][(/\ last'.serial # last.serial
        /\ last'.domain = last.domain
        /\ last.domain \in {"disk", "network", "android"}
        /\ last.rawErr
        /\ last'.at - last.at < Ttl(last.domain))
       => (/\ last'.calls = 0
           /\ last'.settled = last.settled)]_vars

C13_CacheTimeNeverDecreases ==
    [][/\ androidCacheTime' >= androidCacheTime
       /\ inflight' # inflight /\ Len(inflight') < Len(inflight)
             => \A i \in 1..Len(inflight') : androidCacheTime' <= inflight'[i].at]_vars

\* both of two overlapping calls have written: the second one read its
\* sources although a fresh entry was in place when it continued, and it left
\* its own, newer timestamp
C13_Witness ==
    /\ inflight = <<>>
    /\ tracked = NoSample
    /\ last.domain = "android"
    /\ last.calls = 1
    /\ last.age >= 0
    /\ last.age < ANDROID_CACHE_TTL
    /\ androidCacheTime > last.at - last.age

\* C14: with a sample stored, a successful /proc/stat read returns
\* 100 * (1 - idleDelta / totalDelta) clamped to [0, 100], where idleDelta is
\* the change of idle + iowait and totalDelta the change of the sum of the
\* counters (stated where totalDelta > 0, where the quotient exists); the
\* samples {idle 100, total 1000} then {idle 150, total 1100} give 50.
C14_DeltaUsage ==
    (tracked.called /\ platform = "linux" /\ tracked.prior # Null /\ ~tracked.stat.threw) =>
        LET stat       == tracked.stat.value
            prior      == tracked.prior.obj
            idleDelta  == (stat.idle + stat.iowait) - (prior.idle + prior.iowait)
            totalDelta == TotalTicks(stat) - prior.total
            usage      == tracked.usage
        IN /\ totalDelta > 0 =>
                  \/ idleDelta < 0 /\ usage.num = 100 * usage.den
                  \/ idleDelta > totalDelta /\ usage.num = 0
                  \/ /\ idleDelta >= 0
                     /\ idleDelta <= totalDelta
                     /\ usage.num * totalDelta = 100 * (totalDelta - idleDelta) * usage.den
           /\ (/\ prior.total = 1000 /\ prior.idle = 100 /\ prior.iowait = 0
               /\ TotalTicks(stat) = 1100 /\ stat.idle = 150 /\ stat.iowait = 0)
                  => usage.num = 50 * usage.den

C14_Witness ==
    /\ tracked.called
    /\ platform = "linux"
    /\ tracked.prior = Obj([total |-> 1000, idle |-> 100, iowait |-> 0])
    /\ ~tracked.stat.threw
    /\ tracked.stat.value.idle = 150
    /\ tracked.stat.value.iowait = 0
    /\ TotalTicks(tracked.stat.value) = 1100
    /\ tracked.usage.num = 50 * tracked.usage.den

\* C15: the first successful /proc/stat read (no sample stored) computes no
\* delta: it returns min(100, load average * 10) and stores the sample it
\* read, so that the tracker is seeded for the next read.
C15_FirstReadSeeds ==
    (tracked.called /\ platform = "linux" /\ tracked.prior = Null /\ ~tracked.stat.threw) =>
        /\ IF tracked.load100 > 1000
           THEN tracked.usage.num = 100 * tracked.usage.den
           ELSE tracked.usage.num * 10 = tracked.load100 * tracked.usage.den
        /\ lastCpuUsage = Obj([total  |-> TotalTicks(tracked.stat.value),
                               idle   |-> tracked.stat.value.idle,
                               iowait |-> tracked.stat.value.iowait])
        /\ lastMeasureTime # 0

C15_Witness ==
    /\ tracked.called
    /\ platform = "linux"
    /\ tracked.prior = Null
    /\ ~tracked.stat.threw
    /\ tracked.load100 = 1250
    /\ tracked.usage.num = 100 * tracked.usage.den
    /\ lastCpuUsage # Null

\* C16: on a platform without /proc/stat the usage returned is
\* min(100, load average * 10); on every platform, after any sequence of
\* reads, the usage the tracker returns and the usage figure of the
\* collector's result lie in [0, 100].
C16_UsageWithinBounds ==
    tracked.called =>
        /\ platform # "linux" =>
               IF tracked.load100 > 1000
               THEN tracked.usage.num = 100 * tracked.usage.den
               ELSE tracked.usage.num * 10 = tracked.load100 * tracked.usage.den
        /\ tracked.usage.num >= 0
        /\ tracked.usage.num <= 100 * tracked.usage.den
        /\ tracked.result.obj["usage"] >= 0
        /\ tracked.result.obj["usage"] <= 10000

\* C17: a /proc/stat read that fails leaves the stored sample as it was, and
\* a call that found a sample stored leaves a sample stored: the tracker never
\* returns to the uninitialized state.
C17_FailedReadKeepsSample ==
    (tracked.called /\ platform = "linux") =>
        /\ tracked.stat.threw => lastCpuUsage = tracked.prior
        /\ tracked.prior # Null => (lastCpuUsage # Null /\ lastMeasureTime # 0)

C17_Witness ==
    /\ tracked.called
    /\ platform = "linux"
    /\ tracked.stat.threw
    /\ tracked.prior # Null
    /\ lastCpuUsage = tracked.prior

\* C18: a /proc/stat read that fails makes the cpu collector return a
\* failure descriptor instead of a usage figure.
C18_FailedReadIsProbeFailure ==
    (tracked.called /\ platform = "linux" /\ tracked.stat.threw) =>
        /\ HasError(tracked.result)
        /\ "coreUsage" \notin DOMAIN tracked.result.obj

\* C19: the stored sample is always the one of the most recent /proc/stat
\* read that succeeded, whether that read returned a delta or the fallback;
\* so the sample a call finds is the one of the immediately preceding
\* successful read.
C19_StoredSampleIsLastRead ==
    platform = "linux" =>
        IF tracked.lastRead.threw
        THEN lastCpuUsage = Null
        ELSE lastCpuUsage = Obj([total  |-> TotalTicks(tracked.lastRead.value),
                                 idle   |-> tracked.lastRead.value.idle,
                                 iowait |-> tracked.lastRead.value.iowait])

C19_Witness ==
    /\ tracked.called
    /\ platform = "linux"
    /\ tracked.prior # Null
    /\ ~tracked.stat.threw
    /\ lastCpuUsage # tracked.prior
    /\ lastCpuUsage = Obj([total  |-> TotalTicks(tracked.stat.value),
                           idle   |-> tracked.stat.value.idle,
                           iowait |-> tracked.stat.value.iowait])

\* C20: on a platform other than linux every call of the android collector
\* returns {available: false, reason} with a non-empty reason and an `error`
\* key nowhere, runs none of the sub-probes and no external command, and
\* leaves the cache empty.
C20_AndroidUnavailableOffLinux ==
    (last.domain = "android" /\ platform # "linux") =>
        /\ last.settled = Fulfilled(Obj([available |-> FALSE,
                                         reason    |-> <<"Android features not available on",
                                                         platform>>]))
        /\ last.settled.value.obj["reason"] # <<>>
        /\ last.calls = 0
        /\ ~last.rawErr
        /\ androidCache = Null

C20_Witness ==
    /\ last.domain = "android"
    /\ platform = "darwin"
    /\ last.at > 1000
    /\ last.calls = 0
    /\ last.settled.value.obj["available"] = FALSE

\* C21: on a platform other than linux the android slot {available: false,
\* reason} is no failure: no warning names android, and when no source of the
\* other five collectors fails the status is "ok" with no warning at all.
C21_UnavailableIsNotFailure ==
    (Snapshot /\ platform # "linux") =>
        /\ Slots["android"].obj["available"] = FALSE
        /\ ~HasError(Slots["android"])
        /\ \A i \in 1..Len(WarningList) : WarningList[i][1] # "android"
        /\ response.rawErr = {} =>
               /\ response.body.meta.status = "ok"
               /\ WarningList = <<>>

C21_Witness ==
    /\ Snapshot
    /\ platform = "darwin"
    /\ response.rawErr = {}
    /\ Slots["android"].obj["available"] = FALSE
    /\ response.body.meta.status = "ok"

\* C22: when the android probe is attempted (linux, no fresh cache entry) the
\* result has available = true and all three of battery, thermal and device,
\* whatever combination of their external calls raised; each field is settled
\* by its own sub-probe's calls alone: battery reports a failure exactly when
\* the Termux check or termux-battery-status raised, thermal exactly when the
\* listing of /sys/class/thermal raised, and device never does, holding the
\* properties and the kernel version its own calls gave.
C22_SubProbesIsolated ==
    (applied.fn = "collectAndroidInfo" /\ platform = "linux" /\ applied.output.calls = 1) =>
        LET env == applied.input
            r   == applied.output.settled.value.obj
        IN /\ applied.output.settled.status = "fulfilled"
           /\ r.available = TRUE
           /\ {"battery", "thermal", "device"} \subseteq DOMAIN r
           /\ HasError(r.battery) <=> (env.which.threw \/ env.battery.threw)
           /\ ~HasError(r.battery) => r.battery.obj.level = env.battery.value.percentage
           /\ HasError(r.thermal) <=> (env.sys.exists /\ env.sys.listing.threw)
           /\ (env.sys.exists /\ ~env.sys.listing.threw) =>
                  /\ "zones" \in DOMAIN r.thermal.obj
                  /\ r.thermal.obj.count = 1
           /\ ~HasError(r.device)
           /\ "kernelVersion" \in DOMAIN r.device.obj <=>
                  (env.version.exists /\ ~env.version.read.threw)
           /\ "model" \in DOMAIN r.device.obj <=> (~env.which.threw /\ ~env.getprop.threw)

C22_Witness ==
    /\ applied.fn = "collectAndroidInfo" /\ platform = "linux" /\ applied.output.calls = 1
    /\ ~applied.input.which.threw /\ applied.input.battery.threw
    /\ applied.input.sys = SysOk
    /\ HasError(applied.output.settled.value.obj.battery)
    /\ applied.output.settled.value.obj.available = TRUE
    /\ applied.output.settled.value.obj.thermal.obj.count = 1
    /\ "model" \in DOMAIN applied.output.settled.value.obj.device.obj

\* C23: the snapshot is built from six settled probes, and each domain's slot
\* is settled by that domain's probe alone: a fulfilled probe's value is the
\* slot as it stands, a rejected probe's slot is that domain's error object,
\* whatever the other five probes did.
C23_SlotFollowsOwnProbe ==
    (Snapshot /\ applied.fn = "Respond") =>
        /\ DOMAIN applied.input = Domains
        /\ DOMAIN Slots = Domains
        /\ \A d \in Domains :
               /\ applied.input[d].status \in {"fulfilled", "rejected"}
               /\ applied.input[d].status = "fulfilled" => Slots[d] = applied.input[d].value
               /\ applied.input[d].status = "rejected" =>
                      /\ HasError(Slots[d])
                      /\ Slots[d].obj["error"] = SlotError(d)

C23_Witness ==
    /\ Snapshot /\ applied.fn = "Respond"
    /\ applied.input["cpu"].status = "rejected"
    /\ HasError(Slots["cpu"])
    /\ \A d \in Domains \ {"cpu"} :
           /\ applied.input[d] = Fulfilled(Obj([value |-> 1]))
           /\ Slots[d] = Obj([value |-> 1])

\* C24: a collector call reads and writes only its own module's state: a call
\* of one collector leaves the disk cache, the network cache, the android
\* cache and the CPU sample of every other collector as they were, and a call
\* of the host or memory collector changes none of them.
C24_ProbesOwnTheirState ==
    [][last'.serial # last.serial =>
          /\ last'.domain # "disk" => UNCHANGED <<diskCache, diskCacheTime>>
          /\ last'.domain # "network" => UNCHANGED <<networkCache, networkCacheTime>>
          /\ last'.domain # "android" => UNCHANGED <<androidCache, androidCacheTime>>
          /\ last'.domain # "cpu" => UNCHANGED <<lastCpuUsage, lastMeasureTime>>
          /\ last'.domain \in {"host", "memory"} => UNCHANGED caches]_vars

C24_Witness ==
    /\ last.domain = "disk" /\ last.calls = 1 /\ diskCacheTime = now
    /\ networkCache # Null /\ networkCacheTime < now
    /\ androidCache # Null /\ androidCacheTime < now
    /\ lastCpuUsage # Null /\ lastMeasureTime < now

\* C25: every external call a collector makes is bounded by a timeout: a call
\* whose tool or file hangs has raised a timeout error once the longest bound
\* has passed, so the collector goes on to settle.
C25_HungCallTimesOut ==
    (applied.fn = "call" /\ applied.input.hangs
        /\ now - applied.input.at >= LongestTimeout) =>
        /\ applied.input.call.timeout > 0
        /\ applied.output = Thrown("ETIMEDOUT")

\* C26: every failure a collector reports carries a kind, one of
\* source-unavailable, parse-error and timeout.
C26_FailureCarriesKind ==
    (last.domain # "none" /\ last.settled.status = "fulfilled"
        /\ ReportsFailure(last.settled.value)) =>
        LET v == last.settled.value
            failure == IF HasError(v) THEN v
                       ELSE v.elems[CHOOSE i \in 1..Len(v.elems) : HasError(v.elems[i])]
        IN /\ "kind" \in DOMAIN failure.obj
           /\ failure.obj["kind"] \in {"source-unavailable", "parse-error", "timeout"}

C28_NoLoopbackNoIdle ==
    applied.fn = "collectNetworkInfo" =>
        LET r == applied.output.settled.value.obj
        IN /\ \A name \in DOMAIN r :
                  /\ name # "lo"
                  /\ r[name].rx.bytes # 0
                  /\ r[name].total.bytes = r[name].rx.bytes + r[name].tx.bytes
                  /\ r[name].total.packets = r[name].rx.packets + r[name].tx.packets
           /\ (platform = "linux" /\ ~applied.input.threw) =>
                  \A i \in 1..Len(applied.input.value) :
                      LET line == applied.input.value[i]
                      IN (line.n >= 17 /\ line.name # "lo" /\ line.rx.bytes # 0) =>
                             line.name \in DOMAIN r

\* C29: with AUTH_TOKEN configured, a request to /api/metrics reaches the
\* metrics handler only if its Authorization header is `Bearer <token>` with
\* the configured token, and is answered 401 otherwise; /health is answered
\* without a token; with no AUTH_TOKEN every request reaches its route.
C29_BearerTokenOnly ==
    applied.fn = "request" =>
        LET req      == applied.input
            answered == response.code # 0
        IN /\ req.path = "/health" => applied.output.status = 200
           /\ (req.path = "/api/metrics" /\ req.authToken = <<>>) => answered
           /\ (req.path = "/api/metrics" /\ req.authToken # <<>>) =>
                  /\ answered <=> req.authHeader = S_Bearer \o <<" ">> \o req.authToken
                  /\ ~answered => applied.output.status = 401

\* C30: the polling hook retries after an error: while the component is
\* mounted and shows an error, another fetch is eventually issued (or the
\* component unmounts); and once a fetch has succeeded the error is cleared
\* and the metrics are that fetch's data.
C30_RetriesAfterError ==
    /\ \A b \in {0, 1} :
           (hook.phase = "mounted" /\ hook.error # Null /\ hook.serial = b)
               ~> (hook.phase # "mounted" \/ hook.serial # b)
    /\ []((hook.phase = "mounted" /\ hook.settled.ok) =>
              (hook.error = Null /\ hook.metrics = hook.settled.data))

C30_Witness ==
    /\ hook.phase = "mounted"
    /\ hook.settled.ok /\ hook.settled.errorBefore # Null
    /\ hook.error = Null
    /\ hook.metrics = Obj([timestamp |-> 2])

\* C31: no entry of the parsed disk listing has a filesystem column that
\* starts with `overlay`: overlay mounts are dropped as tmpfs is.
C31_OverlayExcluded ==
    applied.fn = "parseDfOutput" =>
        \A j \in 1..Len(applied.output.elems) :
            ~StartsWith(applied.output.elems[j].obj.filesystem, S_overlay)

\* C32: every volume of the parsed df listing carries the listing's 1 KiB
\* block counts multiplied by 1024 as sizeBytes, usedBytes and availableBytes,
\* and the figure of the listing's own percentage column as usagePercent,
\* also where used / size would give another figure.
C32_BytesAndOwnPercent ==
    applied.fn = "parseDfOutput" =>
        LET lines == applied.input
            out   == applied.output.elems
            kept  == {i \in 1..Len(lines) : lines[i].n >= 6 /\ ~IsSpecialFilesystem(lines[i])}
        IN \A i \in kept :
               LET volume == out[Cardinality({k \in kept : k <= i})].obj
               IN /\ volume.sizeBytes = 1024 * lines[i].size
                  /\ volume.usedBytes = 1024 * lines[i].used
                  /\ volume.availableBytes = 1024 * lines[i].available
                  /\ volume.usagePercent = lines[i].usage

C32_Witness ==
    /\ applied.fn = "parseDfOutput"
    /\ Len(applied.output.elems) = 1
    /\ applied.output.elems[1].obj.usedBytes = 102400
    /\ applied.output.elems[1].obj.sizeBytes = 204800
    /\ applied.output.elems[1].obj.usagePercent = 53

\* C33: every per-core figure of the cpu collector's result is computed from
\* that core's own idle and total ticks (zero for a core without ticks), with
\* or without a stored sample; the usage figure of the result is the mean of
\* the per-core figures when the tracker returned exactly zero and os.cpus()
\* listed a core, and the tracker's figure (to two decimals) otherwise.
C33_ZeroFallsBackToCoreMean ==
    tracked.called =>
        LET cpus   == tracked.cpus
            cores  == tracked.result.obj["coreUsage"]
            own(c) == IF c.total = 0 THEN 0
                      ELSE (2 * 10000 * (c.total - c.idle) + c.total) \div (2 * c.total)
            sum    == SumSeq([i \in 1..Len(cpus) |-> own(cpus[i])])
        IN /\ Len(cores) = Len(cpus)
           /\ \A i \in 1..Len(cpus) : cores[i].usage = own(cpus[i])
           /\ tracked.result.obj["usage"] =
                  IF tracked.usage.num = 0 /\ Len(cpus) > 0
                  THEN (2 * sum + Len(cpus)) \div (2 * Len(cpus))
                  ELSE ToFixed2(tracked.usage)

C33_Witness ==
    /\ tracked.called
    /\ platform = "linux"
    /\ tracked.prior # Null
    /\ ~tracked.stat.threw
    /\ tracked.usage.num = 0
    /\ Len(tracked.cpus) = 2
    /\ tracked.result.obj["coreUsage"][1].usage = 4000
    /\ tracked.result.obj["coreUsage"][2].usage = 1000
    /\ tracked.result.obj["usage"] = 2500

\* C34: a successful /proc/stat read that finds a sample stored and a total
\* not above the stored one returns the usage 0 (a number: no division takes
\* place) and stores the sample it read.
C34_StalledCounterGivesZero ==
    (/\ tracked.called /\ platform = "linux" /\ tracked.prior # Null /\ ~tracked.stat.threw
     /\ TotalTicks(tracked.stat.value) - tracked.prior.obj.total <= 0) =>
        /\ tracked.usage.den > 0
        /\ tracked.usage.num = 0
        /\ lastCpuUsage.obj.total = TotalTicks(tracked.stat.value)
        /\ lastCpuUsage.obj.idle = tracked.stat.value.idle
        /\ lastCpuUsage.obj.iowait = tracked.stat.value.iowait

C34_Witness ==
    /\ tracked.called
    /\ platform = "linux"
    /\ tracked.prior # Null
    /\ ~tracked.stat.threw
    /\ TotalTicks(tracked.stat.value) < tracked.prior.obj.total
    /\ tracked.usage.num = 0
    /\ lastCpuUsage # tracked.prior
    /\ lastCpuUsage.obj.total = TotalTicks(tracked.stat.value)

\* C35: when /sys/class/thermal can be listed, the thermal sub-probe does not
\* fail, whatever reading a single zone does, and where it reports zones every
\* readable zone has an entry of its own: the count is the number of readable
\* zones, also when two of them have the same type name.
C35_EveryReadableZoneListed ==
    (/\ applied.fn = "collectAndroidInfo"
     /\ "thermal" \in DOMAIN applied.output.settled.value.obj
     /\ applied.input.sys.exists /\ ~applied.input.sys.listing.threw) =>
        LET thermal  == applied.output.settled.value.obj.thermal
            entries  == applied.input.sys.listing.value
            readable == ReadableZones(entries)
        IN /\ ~HasError(thermal)
           /\ "zones" \in DOMAIN thermal.obj =>
                  /\ thermal.obj.count = Cardinality(readable)
                  /\ \A i \in readable :
                         \E type \in DOMAIN thermal.obj.zones :
                             thermal.obj.zones[type].zone = entries[i].name

\* C36: `loading` is true exactly while no fetch has settled in the mounted
\* component and never turns true again; after a fetch that failed, `error`
\* is set and `metrics` is what it was before; App shows the full-page
\* connection error only with an error set and no data ever received.
C36_LoadingOnceErrorKeepsMetrics ==
    [][LET Shown(h) ==
               /\ h.loading <=> ~h.completed
               /\ (h.completed /\ ~h.settled.ok) =>
                      (h.error # Null /\ h.metrics = h.settled.metricsBefore)
               /\ View(h) = "connection error" => (h.error # Null /\ ~h.received)
       IN /\ Shown(hook)
          /\ Shown(hook')
          /\ ~hook.loading => ~hook'.loading]_vars

C36_Witness ==
    /\ hook.phase = "mounted"
    /\ hook.completed /\ ~hook.settled.ok
    /\ hook.received
    /\ hook.error # Null
    /\ hook.metrics = Obj([timestamp |-> 2])
    /\ hook.settled.metricsBefore = hook.metrics
    /\ ~hook.loading
    /\ View(hook) = "dashboard"

\* C37: no fetch that brings data replaces the data of a fetch issued after
\* it, and once the component has unmounted no settling fetch changes
\* `metrics`, `loading` or `error`.
C37_MetricsNeverRegress ==
    [][/\ ~hook'.settled.regressed
       /\ hook.phase = "unmounted" =>
              /\ hook'.metrics = hook.metrics
              /\ hook'.loading = hook.loading
              /\ hook'.error = hook.error]_vars
====
